---- MODULE Spec2Model ----
(***************************************************************************)
(* Distributed tic-tac-toe: two paired GameServer nodes (A and B), each    *)
(* with its own games table, client connections and pending-game slot,     *)
(* synchronised through one shared Redis pub/sub topic (FederationManager),*)
(* and the stateless GameEngine that validates moves.                      *)
(***************************************************************************)
EXTENDS Integers, Sequences, FiniteSets, TLC

\* ------------------------------------------------------------- bounds ----
\* client events handled over both nodes: connections, JOIN_GAME and MAKE_MOVE
\* messages, closes
MaxRequests == 6
\* for the specification of whole games (SpecPlay): connections, JOIN_GAME
\* messages and accepted moves over both nodes
PlayConns == 3
PlayJoins == 3
PlayMoves == 5
\* for the specification with replayed move-made envelopes (SpecReplay):
\* accepted moves over both nodes
ReplayMoves == 2

\* ---------------------------------------------------------- constants ----
BOARD_SIZE == 3
SERVER_A_ID == "A"
SERVER_B_ID == "B"
PLAYER_X == "X"
PLAYER_O == "O"
EMPTY_CELL == " "
WAITING == "WAITING"
PLAYING == "PLAYING"
FINISHED == "FINISHED"
DRAW == "DRAW"

Nodes == {SERVER_A_ID, SERVER_B_ID}
Symbols == {PLAYER_X, PLAYER_O}
GameStates == {WAITING, PLAYING, FINISHED}
Idx == 0 .. (BOARD_SIZE - 1)
\* row / col values the clients put in MAKE_MOVE: two cells of the top row and
\* one position off the grid (the engine is checked on every cell in SpecEngine)
MoveRows == {0}
MoveCols == {-1, 0, 1}
\* null / undefined for ids and for the winner
Nil == <<>>
NoWinner == "none"
\* winningLine: undefined, or a list of coordinates (the list may be empty)
NoLine == [defined |-> FALSE, cells |-> <<>>]
Line(cells) == [defined |-> TRUE, cells |-> cells]

Other(sym) == IF sym = PLAYER_X THEN PLAYER_O ELSE PLAYER_X

\* ------------------------------------------------------- GameEngine ----
createEmptyBoard == [r \in Idx |-> [c \in Idx |-> EMPTY_CELL]]

Min(S) == CHOOSE x \in S : \A y \in S : x <= y

\* checkWinner without the check of the top-right to bottom-left diagonal
checkWinnerNoAntiDiagonal(board) ==
  LET rows == {row \in Idx : /\ board[row][0] # EMPTY_CELL
                             /\ board[row][0] = board[row][1]
                             /\ board[row][1] = board[row][2]}
      cols == {col \in Idx : /\ board[0][col] # EMPTY_CELL
                             /\ board[0][col] = board[1][col]
                             /\ board[1][col] = board[2][col]}
  IN  IF rows # {}
      THEN [winner |-> board[Min(rows)][0],
            winningLine |-> Line(<< <<Min(rows), 0>>, <<Min(rows), 1>>, <<Min(rows), 2>> >>)]
      ELSE IF cols # {}
      THEN [winner |-> board[0][Min(cols)],
            winningLine |-> Line(<< <<0, Min(cols)>>, <<1, Min(cols)>>, <<2, Min(cols)>> >>)]
      ELSE IF /\ board[0][0] # EMPTY_CELL
              /\ board[0][0] = board[1][1]
              /\ board[1][1] = board[2][2]
      THEN [winner |-> board[0][0],
            winningLine |-> Line(<< <<0, 0>>, <<1, 1>>, <<2, 2>> >>)]
      ELSE [winner |-> NoWinner, winningLine |-> NoLine]

\* checkWinner with the loop over the columns before the loop over the rows
checkWinnerColumnsFirst(board) ==
  LET rows == {row \in Idx : /\ board[row][0] # EMPTY_CELL
                             /\ board[row][0] = board[row][1]
                             /\ board[row][1] = board[row][2]}
      cols == {col \in Idx : /\ board[0][col] # EMPTY_CELL
                             /\ board[0][col] = board[1][col]
                             /\ board[1][col] = board[2][col]}
  IN  IF cols # {}
      THEN LET col == Min(cols)
           IN  [winner |-> board[0][col],
                winningLine |-> Line(<< <<0, col>>, <<1, col>>, <<2, col>> >>)]
      ELSE IF rows # {}
      THEN LET row == Min(rows)
           IN  [winner |-> board[row][0],
                winningLine |-> Line(<< <<row, 0>>, <<row, 1>>, <<row, 2>> >>)]
      ELSE IF /\ board[0][0] # EMPTY_CELL
              /\ board[0][0] = board[1][1]
              /\ board[1][1] = board[2][2]
      THEN [winner |-> board[0][0],
            winningLine |-> Line(<< <<0, 0>>, <<1, 1>>, <<2, 2>> >>)]
      ELSE IF /\ board[0][2] # EMPTY_CELL
              /\ board[0][2] = board[1][1]
              /\ board[1][1] = board[2][0]
      THEN [winner |-> board[0][2],
            winningLine |-> Line(<< <<0, 2>>, <<1, 1>>, <<2, 0>> >>)]
      ELSE [winner |-> NoWinner, winningLine |-> NoLine]

\* the loops return at the first matching row, then the first matching
\* column, then the main diagonal, then the anti-diagonal
checkWinner(board) ==
  LET rows == {row \in Idx : /\ board[row][0] # EMPTY_CELL
                             /\ board[row][0] = board[row][1]
                             /\ board[row][1] = board[row][2]}
      cols == {col \in Idx : /\ board[0][col] # EMPTY_CELL
                             /\ board[0][col] = board[1][col]
                             /\ board[1][col] = board[2][col]}
  IN  IF rows # {}
      THEN LET row == Min(rows)
           IN  [winner |-> board[row][0],
                winningLine |-> Line(<< <<row, 0>>, <<row, 1>>, <<row, 2>> >>)]
      ELSE IF cols # {}
      THEN LET col == Min(cols)
           IN  [winner |-> board[0][col],
                winningLine |-> Line(<< <<0, col>>, <<1, col>>, <<2, col>> >>)]
      ELSE IF /\ board[0][0] # EMPTY_CELL
              /\ board[0][0] = board[1][1]
              /\ board[1][1] = board[2][2]
      THEN [winner |-> board[0][0],
            winningLine |-> Line(<< <<0, 0>>, <<1, 1>>, <<2, 2>> >>)]
      ELSE IF /\ board[0][2] # EMPTY_CELL
              /\ board[0][2] = board[1][1]
              /\ board[1][1] = board[2][0]
      THEN [winner |-> board[0][2],
            winningLine |-> Line(<< <<0, 2>>, <<1, 1>>, <<2, 0>> >>)]
      ELSE [winner |-> NoWinner, winningLine |-> NoLine]

\* isBoardFull with the loop over the rows stopping one row short
isBoardFullSkipsLastRow(board) ==
  \A row \in 0 .. (BOARD_SIZE - 2) : \A col \in Idx : board[row][col] # EMPTY_CELL

isBoardFull(board) == \A row \in Idx : \A col \in Idx : board[row][col] # EMPTY_CELL

\* MoveResult
Rejected(reason) ==
  [valid |-> FALSE, reason |-> reason, gameOver |-> FALSE,
   winner |-> NoWinner, winningLine |-> NoLine]
Accepted(gameOver, winner, winningLine) ==
  [valid |-> TRUE, reason |-> "", gameOver |-> gameOver,
   winner |-> winner, winningLine |-> winningLine]
NoResult == Rejected("")
\* the out-of-range reason: `Invalid coordinates. Must be between 0 and ${BOARD_SIZE - 1}`
InvalidCoordinates ==
  "Invalid coordinates. Must be between 0 and " \o ToString(BOARD_SIZE - 1)

\* applyMove with the turn flipped after every accepted move, a winning one too
applyMoveFlipsAlways(game, row, col) ==
  LET board1 == [game.board EXCEPT ![row][col] = game.currentTurn]
      winResult == checkWinner(board1)
  IN  IF winResult.winner # NoWinner
      THEN [game |-> [game EXCEPT !.board = board1, !.state = FINISHED,
                                  !.winner = winResult.winner,
                                  !.winningLine = winResult.winningLine,
                                  !.currentTurn = Other(game.currentTurn)],
            result |-> Accepted(TRUE, winResult.winner, winResult.winningLine)]
      ELSE IF isBoardFull(board1)
      THEN [game |-> [game EXCEPT !.board = board1, !.state = FINISHED,
                                  !.winner = DRAW,
                                  !.currentTurn = Other(game.currentTurn)],
            result |-> Accepted(TRUE, DRAW, NoLine)]
      ELSE [game |-> [game EXCEPT !.board = board1,
                                  !.currentTurn = Other(game.currentTurn)],
            result |-> Accepted(FALSE, NoWinner, NoLine)]

\* makeMove, from "Make the move" on: the mark is placed, the winner and draw
\* checks run, and only a move that ends nothing flips the turn
applyMove(game, row, col) ==
  LET board1 == [game.board EXCEPT ![row][col] = game.currentTurn]
      winResult == checkWinner(board1)
  IN  IF winResult.winner # NoWinner
      THEN [game |-> [game EXCEPT !.board = board1, !.state = FINISHED,
                                  !.winner = winResult.winner,
                                  !.winningLine = winResult.winningLine],
            result |-> Accepted(TRUE, winResult.winner, winResult.winningLine)]
      ELSE IF isBoardFull(board1)
      THEN [game |-> [game EXCEPT !.board = board1, !.state = FINISHED,
                                  !.winner = DRAW],
            result |-> Accepted(TRUE, DRAW, NoLine)]
      ELSE [game |-> [game EXCEPT !.board = board1,
                                  !.currentTurn = Other(game.currentTurn)],
            result |-> Accepted(FALSE, NoWinner, NoLine)]

\* makeMove with the coordinates checked before the turn
makeMoveChecksCoordinatesFirst(game, row, col, playerId) ==
  IF game.state # PLAYING
  THEN [game |-> game, result |-> Rejected("Game is not in progress")]
  ELSE IF row < 0 \/ row >= BOARD_SIZE \/ col < 0 \/ col >= BOARD_SIZE
  THEN [game |-> game, result |-> Rejected(InvalidCoordinates)]
  ELSE IF \/ game.currentTurn \notin DOMAIN game.players
          \/ game.players[game.currentTurn].id # playerId
  THEN [game |-> game, result |-> Rejected("Not your turn")]
  ELSE IF game.board[row][col] # EMPTY_CELL
  THEN [game |-> game, result |-> Rejected("Cell is already occupied")]
  ELSE applyMove(game, row, col)

\* makeMove with the turn check moved behind the placing of the mark
makeMoveMarksBeforeTurnCheck(game, row, col, playerId) ==
  IF game.state # PLAYING
  THEN [game |-> game, result |-> Rejected("Game is not in progress")]
  ELSE IF row < 0 \/ row >= BOARD_SIZE \/ col < 0 \/ col >= BOARD_SIZE
  THEN [game |-> game, result |-> Rejected(InvalidCoordinates)]
  ELSE IF game.board[row][col] # EMPTY_CELL
  THEN [game |-> game, result |-> Rejected("Cell is already occupied")]
  ELSE IF \/ game.currentTurn \notin DOMAIN game.players
          \/ game.players[game.currentTurn].id # playerId
  THEN [game |-> [game EXCEPT !.board[row][col] = game.currentTurn],
        result |-> Rejected("Not your turn")]
  ELSE applyMove(game, row, col)

\* makeMove mutates the game it is handed: the value is the game afterwards
\* together with the MoveResult returned
makeMove(game, row, col, playerId) ==
  IF game.state # PLAYING
  THEN [game |-> game, result |-> Rejected("Game is not in progress")]
  ELSE IF \/ game.currentTurn \notin DOMAIN game.players
          \/ game.players[game.currentTurn].id # playerId
  THEN [game |-> game, result |-> Rejected("Not your turn")]
  ELSE IF row < 0 \/ row >= BOARD_SIZE \/ col < 0 \/ col >= BOARD_SIZE
  THEN [game |-> game, result |-> Rejected(InvalidCoordinates)]
  ELSE IF game.board[row][col] # EMPTY_CELL
  THEN [game |-> game, result |-> Rejected("Cell is already occupied")]
  ELSE applyMove(game, row, col)

\* ------------------------------------------------------------ state ----
VARIABLES
  games,        \* per node: game id -> Game record            (GameServer.games)
  clients,      \* per node: open socket -> ClientConnection   (GameServer.clients)
  pendingGame,  \* per node: game id or Nil                    (GameServer.pendingGame)
  isConnected,  \* per node: FederationManager.isConnected
  publisherUp,  \* per node: a publish on the node's publisher client succeeds
  chan,         \* per node: envelopes the shared topic still has to hand to
                \* that node's subscriber, oldest first
  nextSock,     \* sockets accepted so far (socket identities are 1, 2, ...)
  nextPid,      \* per node: player ids generated so far
  nextGid,      \* per node: game ids generated so far
  moves,        \* accepted moves so far
  refused,      \* MAKE_MOVE messages answered with ERROR or MOVE_REJECTED so far
  inbox,        \* per socket: the game notices (Notices) its client has received
  sent,         \* client messages delivered by the handler that ran last
  published,    \* envelopes published by the handler that ran last
  last,         \* the handler that ran last and what it worked on
  eGame,        \* GameEngine harness: the game record handed to the engine
  eCall,        \* GameEngine harness: the call made and its arguments
  eRes          \* GameEngine harness: the value returned

nodeVars == <<games, clients, pendingGame, isConnected, publisherUp, chan, nextSock,
              nextPid, nextGid, moves, refused, inbox, sent, published, last>>
engineVars == <<eGame, eCall, eRes>>
vars == <<games, clients, pendingGame, isConnected, publisherUp, chan, nextSock,
          nextPid, nextGid, moves, refused, inbox, sent,
          published, last, eGame, eCall, eRes>>

\* socket identities: more than any specification below accepts
SocketIds == 1 .. 8
\* a game id nobody generated
UnknownGame == <<"?", 0>>

Partner(n) == IF n = SERVER_A_ID THEN SERVER_B_ID ELSE SERVER_A_ID

\* Player; socket 0 is the null handle of a player living on the partner.
\* The display name is carried along by the code but never read: left out.
Player(id, symbol, socket, serverId) ==
  [id |-> id, symbol |-> symbol, socket |-> socket, serverId |-> serverId]

\* Game, as created by handleJoinGame and by the player:waiting handler
NewGame(id, players) ==
  [id |-> id, state |-> WAITING, board |-> createEmptyBoard, players |-> players,
   currentTurn |-> PLAYER_X, winner |-> NoWinner, winningLine |-> NoLine]

ClientConnection == [playerId |-> Nil, gameId |-> Nil]

Remove(f, k) == [x \in (DOMAIN f) \ {k} |-> f[x]]

\* ------------------------------------------------ FederationManager ----
Envelope(type, from, gameId, data) ==
  [type |-> type, fromServerId |-> from, toServerId |-> Partner(from),
   gameId |-> gameId, data |-> data]

notifyPlayerWaiting(n, gameId, playerId, playerSymbol) ==
  Envelope("PLAYER_WAITING", n, gameId,
           [gameId |-> gameId, playerId |-> playerId, playerSymbol |-> playerSymbol])

notifyPlayerJoined(n, gameId, playerId, playerSymbol) ==
  Envelope("PLAYER_JOINED", n, gameId,
           [gameId |-> gameId, playerId |-> playerId, playerSymbol |-> playerSymbol])

\* notifyMoveMade sending the moved cell alone instead of the whole board
notifyMoveMadeDelta(n, gameId, playerId, row, col, board, nextTurn) ==
  Envelope("MOVE_MADE", n, gameId,
           [gameId |-> gameId, playerId |-> playerId, row |-> row, col |-> col,
            board |-> [createEmptyBoard EXCEPT ![row][col] = board[row][col]],
            nextTurn |-> nextTurn])

notifyMoveMade(n, gameId, playerId, row, col, board, nextTurn) ==
  Envelope("MOVE_MADE", n, gameId,
           [gameId |-> gameId, playerId |-> playerId, row |-> row, col |-> col,
            board |-> board, nextTurn |-> nextTurn])

notifyGameEnded(n, gameId, winner, winningLine, board) ==
  Envelope("GAME_ENDED", n, gameId,
           [gameId |-> gameId, winner |-> winner, winningLine |-> winningLine,
            board |-> board])

\* sendToPartner: nothing leaves a manager that is not connected, and an
\* envelope whose publish fails is logged and lost; a published envelope
\* reaches every subscriber of the topic, the sender's own included
sendToPartner(n, envs) == IF isConnected[n] /\ publisherUp[n] THEN envs ELSE <<>>
Fanout(envs) == [m \in Nodes |-> chan[m] \o envs]

\* ------------------------------------------------------ GameServer ----
\* sendMessage: a send on a socket that is no longer open throws and is caught
sendMessage(n, open, socket, msg) ==
  IF socket \in open THEN << [node |-> n, socket |-> socket, msg |-> msg] >> ELSE <<>>

sendError(n, open, socket, errorMessage) ==
  sendMessage(n, open, socket, [type |-> "ERROR", message |-> errorMessage])

\* getLocalPlayer: <<player>> or << >> for null
getLocalPlayer(n, game) ==
  IF PLAYER_X \in DOMAIN game.players /\ game.players[PLAYER_X].serverId = n
  THEN << game.players[PLAYER_X] >>
  ELSE IF PLAYER_O \in DOMAIN game.players /\ game.players[PLAYER_O].serverId = n
  THEN << game.players[PLAYER_O] >>
  ELSE << >>

notifyLocalPlayerGameStart(n, open, game) ==
  LET lp == getLocalPlayer(n, game)
  IN  IF lp = << >> THEN << >>
      ELSE sendMessage(n, open, lp[1].socket,
             [type |-> "GAME_STATE", gameId |-> game.id, board |-> game.board,
              currentTurn |-> game.currentTurn,
              yourTurn |-> (game.currentTurn = lp[1].symbol),
              yourSymbol |-> lp[1].symbol])

notifyLocalPlayerOpponentMove(n, open, game, row, col) ==
  LET lp == getLocalPlayer(n, game)
  IN  IF lp = << >> THEN << >>
      ELSE sendMessage(n, open, lp[1].socket,
             [type |-> "OPPONENT_MOVE", gameId |-> game.id, row |-> row, col |-> col,
              board |-> game.board, yourTurn |-> (game.currentTurn = lp[1].symbol)])

notifyLocalPlayerGameOver(n, open, game) ==
  LET lp == getLocalPlayer(n, game)
  IN  IF lp = << >> THEN << >>
      ELSE sendMessage(n, open, lp[1].socket,
             [type |-> "GAME_OVER", gameId |-> game.id, winner |-> game.winner,
              winningLine |-> game.winningLine, board |-> game.board])

\* handleGameOver: the game afterwards, the envelope and the client messages
handleGameOver(n, open, game, winner, winningLine) ==
  LET game1 == [game EXCEPT !.state = FINISHED, !.winner = winner,
                            !.winningLine = winningLine]
  IN  [game |-> game1,
       envs |-> << notifyGameEnded(n, game1.id, winner, winningLine, game1.board) >>,
       msgs |-> notifyLocalPlayerGameOver(n, open, game1)]

\* what the clients hold after the messages of one handler have arrived; the
\* replies to single requests (MOVE_ACCEPTED, MOVE_REJECTED, OPPONENT_MOVE,
\* ERROR) are kept in sent only
Notices == {"GAME_JOINED", "GAME_STATE", "GAME_OVER"}
Received(msgs) ==
  [s \in SocketIds |->
     inbox[s] \cup ({msgs[i].msg.type : i \in {j \in DOMAIN msgs : msgs[j].socket = s}}
                    \cap Notices)]

Ran(op, n, socket, gameId, result) ==
  [op |-> op, node |-> n, socket |-> socket, gameId |-> gameId, result |-> result]

\* one handler's outputs: client messages, envelopes, and the record of the run
Emit(n, msgs, envs, ran) ==
  /\ sent' = msgs
  /\ inbox' = Received(msgs)
  /\ published' = sendToPartner(n, envs)
  /\ chan' = Fanout(sendToPartner(n, envs))
  /\ last' = ran

\* -------------------------------------------------------- operations ----
Open(n) == DOMAIN clients[n]

\* wss.on('connection'): a fresh socket gets a ClientConnection
Connect(n) ==
  /\ nextSock' = nextSock + 1
  /\ clients' = [clients EXCEPT ![n] = ((nextSock + 1) :> ClientConnection) @@ @]
  /\ Emit(n, << >>, << >>, Ran("connection", n, nextSock + 1, Nil, NoResult))
  /\ UNCHANGED <<games, pendingGame, isConnected, publisherUp, nextPid, nextGid, moves, refused>>
  /\ UNCHANGED engineVars

\* JoinPending with the pending reference left as it was
JoinPendingKeepsPending(n, socket, playerId) ==
  LET gameId == pendingGame[n]
  IN  IF gameId \notin DOMAIN games[n]
      THEN \* games.get() is undefined: the TypeError is caught by
           \* handleClientMessage, after connection.playerId was assigned
           /\ clients' = [clients EXCEPT ![n][socket].playerId = playerId]
           /\ Emit(n, sendError(n, Open(n), socket, "Invalid message format"), << >>,
                   Ran("JOIN_GAME", n, socket, gameId, NoResult))
           /\ UNCHANGED <<games, pendingGame, nextGid>>
      ELSE
        LET game == games[n][gameId]
            playerSymbol == IF PLAYER_X \in DOMAIN game.players THEN PLAYER_O ELSE PLAYER_X
            player == Player(playerId, playerSymbol, socket, n)
            game1 == [game EXCEPT !.players = (playerSymbol :> player) @@ @,
                                  !.state = PLAYING]
        IN  /\ games' = [games EXCEPT ![n][gameId] = game1]
            /\ clients' = [clients EXCEPT ![n][socket] =
                             [playerId |-> playerId, gameId |-> gameId]]
            /\ UNCHANGED pendingGame
            /\ Emit(n,
                    sendMessage(n, Open(n), socket,
                      [type |-> "GAME_JOINED", gameId |-> gameId, playerId |-> playerId,
                       playerSymbol |-> playerSymbol, waitingForOpponent |-> FALSE])
                    \o notifyLocalPlayerGameStart(n, Open(n), game1),
                    << notifyPlayerJoined(n, gameId, playerId, playerSymbol) >>,
                    Ran("JOIN_GAME", n, socket, gameId, NoResult))
            /\ UNCHANGED nextGid

\* handleJoinGame, pending branch: the game the pending reference names is
\* joined, whoever created it
JoinPending(n, socket, playerId) ==
  LET gameId == pendingGame[n]
  IN  IF gameId \notin DOMAIN games[n]
      THEN \* games.get() is undefined: the TypeError is caught by
           \* handleClientMessage, after connection.playerId was assigned
           /\ clients' = [clients EXCEPT ![n][socket].playerId = playerId]
           /\ Emit(n, sendError(n, Open(n), socket, "Invalid message format"), << >>,
                   Ran("JOIN_GAME", n, socket, gameId, NoResult))
           /\ UNCHANGED <<games, pendingGame, nextGid>>
      ELSE
        LET game == games[n][gameId]
            playerSymbol == IF PLAYER_X \in DOMAIN game.players THEN PLAYER_O ELSE PLAYER_X
            player == Player(playerId, playerSymbol, socket, n)
            game1 == [game EXCEPT !.players = (playerSymbol :> player) @@ @,
                                  !.state = PLAYING]
        IN  /\ games' = [games EXCEPT ![n][gameId] = game1]
            /\ clients' = [clients EXCEPT ![n][socket] =
                             [playerId |-> playerId, gameId |-> gameId]]
            /\ pendingGame' = [pendingGame EXCEPT ![n] = Nil]
            /\ Emit(n,
                    sendMessage(n, Open(n), socket,
                      [type |-> "GAME_JOINED", gameId |-> gameId, playerId |-> playerId,
                       playerSymbol |-> playerSymbol, waitingForOpponent |-> FALSE])
                    \o notifyLocalPlayerGameStart(n, Open(n), game1),
                    << notifyPlayerJoined(n, gameId, playerId, playerSymbol) >>,
                    Ran("JOIN_GAME", n, socket, gameId, NoResult))
            /\ UNCHANGED nextGid

\* JoinCreate with the joiner always given X, whatever the node
JoinCreateAlwaysX(n, socket, playerId) ==
  LET gameId == <<n, nextGid[n] + 1>>
      playerSymbol == PLAYER_X
      player == Player(playerId, playerSymbol, socket, n)
      game == NewGame(gameId, (playerSymbol :> player))
  IN  /\ nextGid' = [nextGid EXCEPT ![n] = @ + 1]
      /\ games' = [games EXCEPT ![n] = (gameId :> game) @@ @]
      /\ clients' = [clients EXCEPT ![n][socket] =
                       [playerId |-> playerId, gameId |-> gameId]]
      /\ pendingGame' = [pendingGame EXCEPT ![n] = gameId]
      /\ Emit(n,
              sendMessage(n, Open(n), socket,
                [type |-> "GAME_JOINED", gameId |-> gameId, playerId |-> playerId,
                 playerSymbol |-> playerSymbol, waitingForOpponent |-> TRUE]),
              << notifyPlayerWaiting(n, gameId, playerId, playerSymbol) >>,
              Ran("JOIN_GAME", n, socket, gameId, NoResult))

\* handleJoinGame, no pending game: a new WAITING game is created
JoinCreate(n, socket, playerId) ==
  LET gameId == <<n, nextGid[n] + 1>>
      playerSymbol == IF n = SERVER_A_ID THEN PLAYER_X ELSE PLAYER_O
      player == Player(playerId, playerSymbol, socket, n)
      game == NewGame(gameId, (playerSymbol :> player))
  IN  /\ nextGid' = [nextGid EXCEPT ![n] = @ + 1]
      /\ games' = [games EXCEPT ![n] = (gameId :> game) @@ @]
      /\ clients' = [clients EXCEPT ![n][socket] =
                       [playerId |-> playerId, gameId |-> gameId]]
      /\ pendingGame' = [pendingGame EXCEPT ![n] = gameId]
      /\ Emit(n,
              sendMessage(n, Open(n), socket,
                [type |-> "GAME_JOINED", gameId |-> gameId, playerId |-> playerId,
                 playerSymbol |-> playerSymbol, waitingForOpponent |-> TRUE]),
              << notifyPlayerWaiting(n, gameId, playerId, playerSymbol) >>,
              Ran("JOIN_GAME", n, socket, gameId, NoResult))

handleJoinGame(n, socket) ==
  /\ socket \in Open(n)
  /\ nextPid' = [nextPid EXCEPT ![n] = @ + 1]
  /\ IF pendingGame[n] # Nil
     THEN JoinPending(n, socket, <<n, nextPid[n] + 1>>)
     ELSE JoinCreate(n, socket, <<n, nextPid[n] + 1>>)
  /\ UNCHANGED <<isConnected, publisherUp, nextSock, moves, refused>>
  /\ UNCHANGED engineVars

\* handleMakeMove with the game looked up before the connection is authenticated
handleMakeMoveLooksUpFirst(n, socket, gameId, row, col) ==
  /\ socket \in Open(n)
  /\ LET connection == clients[n][socket]
     IN  IF gameId \notin DOMAIN games[n]
         THEN /\ Emit(n, sendError(n, Open(n), socket, "Game not found"), << >>,
                      Ran("MAKE_MOVE", n, socket, gameId, NoResult))
              /\ refused' = refused + 1
              /\ UNCHANGED <<games, moves>>
         ELSE IF connection.playerId = Nil
         THEN /\ Emit(n, sendError(n, Open(n), socket, "Not authenticated"), << >>,
                      Ran("MAKE_MOVE", n, socket, gameId, NoResult))
              /\ refused' = refused + 1
              /\ UNCHANGED <<games, moves>>
         ELSE
           LET mm == makeMove(games[n][gameId], row, col, connection.playerId)
               game == mm.game
               result == mm.result
           IN  IF ~result.valid
               THEN /\ games' = [games EXCEPT ![n][gameId] = game]
                    /\ Emit(n, sendMessage(n, Open(n), socket,
                                 [type |-> "MOVE_REJECTED", reason |-> result.reason]),
                            << >>, Ran("MAKE_MOVE", n, socket, gameId, result))
                    /\ refused' = refused + 1
                    /\ UNCHANGED moves
               ELSE
                 LET accepted == sendMessage(n, Open(n), socket,
                                   [type |-> "MOVE_ACCEPTED", gameId |-> gameId,
                                    row |-> row, col |-> col, board |-> game.board,
                                    nextTurn |-> game.currentTurn])
                     moveMade == notifyMoveMade(n, gameId, connection.playerId, row, col,
                                                game.board, game.currentTurn)
                     over == handleGameOver(n, Open(n), game, result.winner,
                                            result.winningLine)
                 IN  /\ moves' = moves + 1
                     /\ UNCHANGED refused
                     /\ IF result.gameOver
                        THEN /\ games' = [games EXCEPT ![n][gameId] = over.game]
                             /\ Emit(n, accepted \o over.msgs,
                                     << moveMade >> \o over.envs,
                                     Ran("MAKE_MOVE", n, socket, gameId, result))
                        ELSE /\ games' = [games EXCEPT ![n][gameId] = game]
                             /\ Emit(n, accepted, << moveMade >>,
                                     Ran("MAKE_MOVE", n, socket, gameId, result))
  /\ UNCHANGED <<clients, pendingGame, isConnected, publisherUp, nextSock, nextPid, nextGid>>
  /\ UNCHANGED engineVars

\* handleMakeMove
handleMakeMove(n, socket, gameId, row, col) ==
  /\ socket \in Open(n)
  /\ LET connection == clients[n][socket]
     IN  IF connection.playerId = Nil
         THEN /\ Emit(n, sendError(n, Open(n), socket, "Not authenticated"), << >>,
                      Ran("MAKE_MOVE", n, socket, gameId, NoResult))
              /\ refused' = refused + 1
              /\ UNCHANGED <<games, moves>>
         ELSE IF gameId \notin DOMAIN games[n]
         THEN /\ Emit(n, sendError(n, Open(n), socket, "Game not found"), << >>,
                      Ran("MAKE_MOVE", n, socket, gameId, NoResult))
              /\ refused' = refused + 1
              /\ UNCHANGED <<games, moves>>
         ELSE
           LET mm == makeMove(games[n][gameId], row, col, connection.playerId)
               game == mm.game
               result == mm.result
           IN  IF ~result.valid
               THEN /\ games' = [games EXCEPT ![n][gameId] = game]
                    /\ Emit(n, sendMessage(n, Open(n), socket,
                                 [type |-> "MOVE_REJECTED", reason |-> result.reason]),
                            << >>, Ran("MAKE_MOVE", n, socket, gameId, result))
                    /\ refused' = refused + 1
                    /\ UNCHANGED moves
               ELSE
                 LET accepted == sendMessage(n, Open(n), socket,
                                   [type |-> "MOVE_ACCEPTED", gameId |-> gameId,
                                    row |-> row, col |-> col, board |-> game.board,
                                    nextTurn |-> game.currentTurn])
                     moveMade == notifyMoveMade(n, gameId, connection.playerId, row, col,
                                                game.board, game.currentTurn)
                     over == handleGameOver(n, Open(n), game, result.winner,
                                            result.winningLine)
                 IN  /\ moves' = moves + 1
                     /\ UNCHANGED refused
                     /\ IF result.gameOver
                        THEN /\ games' = [games EXCEPT ![n][gameId] = over.game]
                             /\ Emit(n, accepted \o over.msgs,
                                     << moveMade >> \o over.envs,
                                     Ran("MAKE_MOVE", n, socket, gameId, result))
                        ELSE /\ games' = [games EXCEPT ![n][gameId] = game]
                             /\ Emit(n, accepted, << moveMade >>,
                                     Ran("MAKE_MOVE", n, socket, gameId, result))
  /\ UNCHANGED <<clients, pendingGame, isConnected, publisherUp, nextSock, nextPid, nextGid>>
  /\ UNCHANGED engineVars

\* handleClientDisconnect declaring the player who left the winner
handleClientDisconnectLeaverWins(n, socket) ==
  /\ socket \in Open(n)
  /\ LET connection == clients[n][socket]
         gameId == connection.gameId
         open == Open(n) \ {socket}
         known == gameId # Nil /\ gameId \in DOMAIN games[n]
     IN  /\ clients' = [clients EXCEPT ![n] = Remove(@, socket)]
         /\ IF known /\ games[n][gameId].state = WAITING /\ pendingGame[n] = gameId
            THEN /\ games' = [games EXCEPT ![n] = Remove(@, gameId)]
                 /\ pendingGame' = [pendingGame EXCEPT ![n] = Nil]
                 /\ Emit(n, << >>, << >>, Ran("close", n, socket, gameId, NoResult))
            ELSE IF known /\ games[n][gameId].state = PLAYING
            THEN LET game == games[n][gameId]
                     winner == IF /\ PLAYER_X \in DOMAIN game.players
                                  /\ game.players[PLAYER_X].id = connection.playerId
                               THEN PLAYER_X ELSE PLAYER_O
                     over == handleGameOver(n, open, game, winner, Line(<< >>))
                 IN  /\ games' = [games EXCEPT ![n] = Remove(@, gameId)]
                     /\ Emit(n, over.msgs, over.envs,
                             Ran("close", n, socket, gameId, NoResult))
                     /\ UNCHANGED pendingGame
            ELSE /\ Emit(n, << >>, << >>, Ran("close", n, socket, gameId, NoResult))
                 /\ UNCHANGED <<games, pendingGame>>
  /\ UNCHANGED <<isConnected, publisherUp, nextSock, nextPid, nextGid, moves, refused>>
  /\ UNCHANGED engineVars

\* handleClientDisconnect that deletes the WAITING game of the connection
\* whether or not it is the pending game
handleClientDisconnectDeletesWaiting(n, socket) ==
  /\ socket \in Open(n)
  /\ LET connection == clients[n][socket]
         gameId == connection.gameId
         open == Open(n) \ {socket}
         known == gameId # Nil /\ gameId \in DOMAIN games[n]
     IN  /\ clients' = [clients EXCEPT ![n] = Remove(@, socket)]
         /\ IF known /\ games[n][gameId].state = WAITING
            THEN /\ games' = [games EXCEPT ![n] = Remove(@, gameId)]
                 /\ pendingGame' = [pendingGame EXCEPT ![n] =
                                      IF @ = gameId THEN Nil ELSE @]
                 /\ Emit(n, << >>, << >>, Ran("close", n, socket, gameId, NoResult))
            ELSE IF known /\ games[n][gameId].state = PLAYING
            THEN LET game == games[n][gameId]
                     winner == IF /\ PLAYER_X \in DOMAIN game.players
                                  /\ game.players[PLAYER_X].id = connection.playerId
                               THEN PLAYER_O ELSE PLAYER_X
                     over == handleGameOver(n, open, game, winner, Line(<< >>))
                 IN  /\ games' = [games EXCEPT ![n] = Remove(@, gameId)]
                     /\ Emit(n, over.msgs, over.envs,
                             Ran("close", n, socket, gameId, NoResult))
                     /\ UNCHANGED pendingGame
            ELSE /\ Emit(n, << >>, << >>, Ran("close", n, socket, gameId, NoResult))
                 /\ UNCHANGED <<games, pendingGame>>
  /\ UNCHANGED <<isConnected, publisherUp, nextSock, nextPid, nextGid, moves, refused>>
  /\ UNCHANGED engineVars

\* handleClientDisconnect
handleClientDisconnect(n, socket) ==
  /\ socket \in Open(n)
  /\ LET connection == clients[n][socket]
         gameId == connection.gameId
         open == Open(n) \ {socket}
         known == gameId # Nil /\ gameId \in DOMAIN games[n]
     IN  /\ clients' = [clients EXCEPT ![n] = Remove(@, socket)]
         /\ IF known /\ games[n][gameId].state = WAITING /\ pendingGame[n] = gameId
            THEN /\ games' = [games EXCEPT ![n] = Remove(@, gameId)]
                 /\ pendingGame' = [pendingGame EXCEPT ![n] = Nil]
                 /\ Emit(n, << >>, << >>, Ran("close", n, socket, gameId, NoResult))
            ELSE IF known /\ games[n][gameId].state = PLAYING
            THEN LET game == games[n][gameId]
                     winner == IF /\ PLAYER_X \in DOMAIN game.players
                                  /\ game.players[PLAYER_X].id = connection.playerId
                               THEN PLAYER_O ELSE PLAYER_X
                     over == handleGameOver(n, open, game, winner, Line(<< >>))
                 IN  /\ games' = [games EXCEPT ![n] = Remove(@, gameId)]
                     /\ Emit(n, over.msgs, over.envs,
                             Ran("close", n, socket, gameId, NoResult))
                     /\ UNCHANGED pendingGame
            ELSE /\ Emit(n, << >>, << >>, Ran("close", n, socket, gameId, NoResult))
                 /\ UNCHANGED <<games, pendingGame>>
  /\ UNCHANGED <<isConnected, publisherUp, nextSock, nextPid, nextGid, moves, refused>>
  /\ UNCHANGED engineVars

\* ------------------------------------------- federation deliveries ----
\* the subscriber callback of node n takes the oldest envelope of the topic
Incoming(n, type) ==
  /\ chan[n] # << >>
  /\ Head(chan[n]).toServerId = n
  /\ Head(chan[n]).type = type

\* outputs of a federation handler: it sends to clients and publishes nothing
Handled(n, msgs, ran) ==
  /\ chan' = [chan EXCEPT ![n] = Tail(@)]
  /\ sent' = msgs
  /\ inbox' = Received(msgs)
  /\ published' = << >>
  /\ last' = ran
  /\ UNCHANGED <<clients, isConnected, publisherUp, nextSock, nextPid, nextGid, moves, refused>>
  /\ UNCHANGED engineVars

\* handleFederationMessage that emits player:joined whoever the recipient is:
\* the envelope addressed to another node is handled when it is of that type
dropForeignEmitsPlayerJoined(n) ==
  /\ chan[n] # << >>
  /\ Head(chan[n]).toServerId # n
  /\ LET data == Head(chan[n]).data
     IN  IF Head(chan[n]).type = "PLAYER_JOINED" /\ data.gameId \in DOMAIN games[n]
         THEN LET partnerPlayer == Player(data.playerId, data.playerSymbol, 0, Partner(n))
                  game1 == [games[n][data.gameId] EXCEPT
                              !.state = PLAYING,
                              !.players = (data.playerSymbol :> partnerPlayer) @@ @]
              IN  /\ pendingGame' = [pendingGame EXCEPT ![n] = Nil]
                  /\ games' = [games EXCEPT ![n][data.gameId] = game1]
                  /\ Handled(n, notifyLocalPlayerGameStart(n, Open(n), game1),
                             Ran("player:joined", n, 0, data.gameId, NoResult))
         ELSE /\ Handled(n, << >>, Ran("dropped", n, 0, Head(chan[n]).gameId, NoResult))
              /\ UNCHANGED <<games, pendingGame>>

\* handleFederationMessage: an envelope addressed to another node is dropped
dropForeign(n) ==
  /\ chan[n] # << >>
  /\ Head(chan[n]).toServerId # n
  /\ Handled(n, << >>, Ran("dropped", n, 0, Head(chan[n]).gameId, NoResult))
  /\ UNCHANGED <<games, pendingGame>>

\* player:waiting handler that stores the mirror and the pending reference
\* whether or not it has a record of the game
onPlayerWaitingOverwrites(n) ==
  /\ Incoming(n, "PLAYER_WAITING")
  /\ LET data == Head(chan[n]).data
         game == NewGame(data.gameId,
                   (data.playerSymbol :>
                      Player(data.playerId, data.playerSymbol, 0, Partner(n))))
     IN  /\ games' = [games EXCEPT ![n] =
                        (data.gameId :> game) @@ Remove(@, data.gameId)]
         /\ pendingGame' = [pendingGame EXCEPT ![n] = data.gameId]
         /\ Handled(n, << >>, Ran("player:waiting", n, 0, data.gameId, NoResult))

\* federation.on('player:waiting')
onPlayerWaiting(n) ==
  /\ Incoming(n, "PLAYER_WAITING")
  /\ LET data == Head(chan[n]).data
         game == NewGame(data.gameId,
                   (data.playerSymbol :>
                      Player(data.playerId, data.playerSymbol, 0, Partner(n))))
     IN  /\ IF data.gameId \notin DOMAIN games[n]
            THEN /\ games' = [games EXCEPT ![n] = (data.gameId :> game) @@ @]
                 /\ pendingGame' = [pendingGame EXCEPT ![n] = data.gameId]
            ELSE UNCHANGED <<games, pendingGame>>
         /\ Handled(n, << >>, Ran("player:waiting", n, 0, data.gameId, NoResult))

\* player:joined handler that starts the game without storing the partner's player
onPlayerJoinedForgetsPlayer(n) ==
  /\ Incoming(n, "PLAYER_JOINED")
  /\ LET data == Head(chan[n]).data
     IN  IF data.gameId \in DOMAIN games[n]
         THEN LET game1 == [games[n][data.gameId] EXCEPT !.state = PLAYING]
              IN  /\ pendingGame' = [pendingGame EXCEPT ![n] = Nil]
                  /\ games' = [games EXCEPT ![n][data.gameId] = game1]
                  /\ Handled(n, notifyLocalPlayerGameStart(n, Open(n), game1),
                             Ran("player:joined", n, 0, data.gameId, NoResult))
         ELSE /\ UNCHANGED <<games, pendingGame>>
              /\ Handled(n, << >>, Ran("player:joined", n, 0, data.gameId, NoResult))

\* player:joined handler that fills the slot but leaves the lifecycle state alone
onPlayerJoinedKeepsState(n) ==
  /\ Incoming(n, "PLAYER_JOINED")
  /\ LET data == Head(chan[n]).data
     IN  IF data.gameId \in DOMAIN games[n]
         THEN LET partnerPlayer == Player(data.playerId, data.playerSymbol, 0, Partner(n))
                  game1 == [games[n][data.gameId] EXCEPT
                              !.players = (data.playerSymbol :> partnerPlayer) @@ @]
              IN  /\ pendingGame' = [pendingGame EXCEPT ![n] = Nil]
                  /\ games' = [games EXCEPT ![n][data.gameId] = game1]
                  /\ Handled(n, notifyLocalPlayerGameStart(n, Open(n), game1),
                             Ran("player:joined", n, 0, data.gameId, NoResult))
         ELSE /\ UNCHANGED <<games, pendingGame>>
              /\ Handled(n, << >>, Ran("player:joined", n, 0, data.gameId, NoResult))

\* player:joined handler that, for a game without a local player, sends the
\* game state to a connected client of the node
onPlayerJoinedNotifiesBystander(n) ==
  /\ Incoming(n, "PLAYER_JOINED")
  /\ LET data == Head(chan[n]).data
     IN  IF data.gameId \in DOMAIN games[n]
         THEN LET partnerPlayer == Player(data.playerId, data.playerSymbol, 0, Partner(n))
                  game1 == [games[n][data.gameId] EXCEPT
                              !.state = PLAYING,
                              !.players = (data.playerSymbol :> partnerPlayer) @@ @]
                  msgs == IF getLocalPlayer(n, game1) = << >> /\ Open(n) # {}
                          THEN sendMessage(n, Open(n), CHOOSE s \in Open(n) : TRUE,
                                 [type |-> "GAME_STATE", gameId |-> game1.id,
                                  board |-> game1.board,
                                  currentTurn |-> game1.currentTurn,
                                  yourTurn |-> FALSE, yourSymbol |-> data.playerSymbol])
                          ELSE notifyLocalPlayerGameStart(n, Open(n), game1)
              IN  /\ pendingGame' = [pendingGame EXCEPT ![n] = Nil]
                  /\ games' = [games EXCEPT ![n][data.gameId] = game1]
                  /\ Handled(n, msgs, Ran("player:joined", n, 0, data.gameId, NoResult))
         ELSE /\ UNCHANGED <<games, pendingGame>>
              /\ Handled(n, << >>, Ran("player:joined", n, 0, data.gameId, NoResult))

\* federation.on('player:joined')
onPlayerJoined(n) ==
  /\ Incoming(n, "PLAYER_JOINED")
  /\ LET data == Head(chan[n]).data
     IN  IF data.gameId \in DOMAIN games[n]
         THEN LET partnerPlayer == Player(data.playerId, data.playerSymbol, 0, Partner(n))
                  game1 == [games[n][data.gameId] EXCEPT
                              !.state = PLAYING,
                              !.players = (data.playerSymbol :> partnerPlayer) @@ @]
              IN  /\ pendingGame' = [pendingGame EXCEPT ![n] = Nil]
                  /\ games' = [games EXCEPT ![n][data.gameId] = game1]
                  /\ Handled(n, notifyLocalPlayerGameStart(n, Open(n), game1),
                             Ran("player:joined", n, 0, data.gameId, NoResult))
         ELSE /\ UNCHANGED <<games, pendingGame>>
              /\ Handled(n, << >>, Ran("player:joined", n, 0, data.gameId, NoResult))

\* move:made handler that applies the move to a game in progress only
onMoveMadeOnlyWhilePlaying(n) ==
  /\ Incoming(n, "MOVE_MADE")
  /\ LET data == Head(chan[n]).data
     IN  IF /\ data.gameId \in DOMAIN games[n]
            /\ games[n][data.gameId].state = PLAYING
         THEN LET game1 == [games[n][data.gameId] EXCEPT
                              !.board = data.board, !.currentTurn = data.nextTurn]
              IN  /\ games' = [games EXCEPT ![n][data.gameId] = game1]
                  /\ Handled(n, notifyLocalPlayerOpponentMove(n, Open(n), game1,
                                                              data.row, data.col),
                             Ran("move:made", n, 0, data.gameId, NoResult))
                  /\ UNCHANGED pendingGame
         ELSE /\ UNCHANGED <<games, pendingGame>>
              /\ Handled(n, << >>, Ran("move:made", n, 0, data.gameId, NoResult))

\* move:made handler that ignores a move whose cell the record has marked already
onMoveMadeSkipsAppliedMove(n) ==
  /\ Incoming(n, "MOVE_MADE")
  /\ LET data == Head(chan[n]).data
     IN  IF /\ data.gameId \in DOMAIN games[n]
            /\ games[n][data.gameId].board[data.row][data.col] = EMPTY_CELL
         THEN LET game1 == [games[n][data.gameId] EXCEPT
                              !.board = data.board, !.currentTurn = data.nextTurn]
              IN  /\ games' = [games EXCEPT ![n][data.gameId] = game1]
                  /\ Handled(n, notifyLocalPlayerOpponentMove(n, Open(n), game1,
                                                              data.row, data.col),
                             Ran("move:made", n, 0, data.gameId, NoResult))
                  /\ UNCHANGED pendingGame
         ELSE /\ UNCHANGED <<games, pendingGame>>
              /\ Handled(n, << >>, Ran("move:made", n, 0, data.gameId, NoResult))

\* move:made handler that starts a record for a game it does not know
onMoveMadeCreatesRecord(n) ==
  /\ Incoming(n, "MOVE_MADE")
  /\ LET data == Head(chan[n]).data
     IN  IF data.gameId \in DOMAIN games[n]
         THEN LET game1 == [games[n][data.gameId] EXCEPT
                              !.board = data.board, !.currentTurn = data.nextTurn]
              IN  /\ games' = [games EXCEPT ![n][data.gameId] = game1]
                  /\ Handled(n, notifyLocalPlayerOpponentMove(n, Open(n), game1,
                                                              data.row, data.col),
                             Ran("move:made", n, 0, data.gameId, NoResult))
                  /\ UNCHANGED pendingGame
         ELSE LET game1 == [NewGame(data.gameId, [s \in {} |-> Nil]) EXCEPT
                              !.state = PLAYING,
                              !.board = data.board, !.currentTurn = data.nextTurn]
              IN  /\ games' = [games EXCEPT ![n] = (data.gameId :> game1) @@ @]
                  /\ Handled(n, << >>, Ran("move:made", n, 0, data.gameId, NoResult))
                  /\ UNCHANGED pendingGame

\* federation.on('move:made')
onMoveMade(n) ==
  /\ Incoming(n, "MOVE_MADE")
  /\ LET data == Head(chan[n]).data
     IN  IF data.gameId \in DOMAIN games[n]
         THEN LET game1 == [games[n][data.gameId] EXCEPT
                              !.board = data.board, !.currentTurn = data.nextTurn]
              IN  /\ games' = [games EXCEPT ![n][data.gameId] = game1]
                  /\ Handled(n, notifyLocalPlayerOpponentMove(n, Open(n), game1,
                                                              data.row, data.col),
                             Ran("move:made", n, 0, data.gameId, NoResult))
                  /\ UNCHANGED pendingGame
         ELSE /\ UNCHANGED <<games, pendingGame>>
              /\ Handled(n, << >>, Ran("move:made", n, 0, data.gameId, NoResult))

\* game:ended handler that closes the game without taking the winner over
onGameEndedKeepsWinner(n) ==
  /\ Incoming(n, "GAME_ENDED")
  /\ LET data == Head(chan[n]).data
     IN  IF data.gameId \in DOMAIN games[n]
         THEN LET game1 == [games[n][data.gameId] EXCEPT
                              !.state = FINISHED,
                              !.winningLine = data.winningLine, !.board = data.board]
              IN  /\ games' = [games EXCEPT ![n][data.gameId] = game1]
                  /\ Handled(n, notifyLocalPlayerGameOver(n, Open(n), game1),
                             Ran("game:ended", n, 0, data.gameId, NoResult))
                  /\ UNCHANGED pendingGame
         ELSE /\ UNCHANGED <<games, pendingGame>>
              /\ Handled(n, << >>, Ran("game:ended", n, 0, data.gameId, NoResult))

\* game:ended handler that closes a game in progress only
onGameEndedOnlyWhilePlaying(n) ==
  /\ Incoming(n, "GAME_ENDED")
  /\ LET data == Head(chan[n]).data
     IN  IF data.gameId \in DOMAIN games[n] /\ games[n][data.gameId].state = PLAYING
         THEN LET game1 == [games[n][data.gameId] EXCEPT
                              !.state = FINISHED, !.winner = data.winner,
                              !.winningLine = data.winningLine, !.board = data.board]
              IN  /\ games' = [games EXCEPT ![n][data.gameId] = game1]
                  /\ Handled(n, notifyLocalPlayerGameOver(n, Open(n), game1),
                             Ran("game:ended", n, 0, data.gameId, NoResult))
                  /\ UNCHANGED pendingGame
         ELSE /\ UNCHANGED <<games, pendingGame>>
              /\ Handled(n, << >>, Ran("game:ended", n, 0, data.gameId, NoResult))

\* federation.on('game:ended')
onGameEnded(n) ==
  /\ Incoming(n, "GAME_ENDED")
  /\ LET data == Head(chan[n]).data
     IN  IF data.gameId \in DOMAIN games[n]
         THEN LET game1 == [games[n][data.gameId] EXCEPT
                              !.state = FINISHED, !.winner = data.winner,
                              !.winningLine = data.winningLine, !.board = data.board]
              IN  /\ games' = [games EXCEPT ![n][data.gameId] = game1]
                  /\ Handled(n, notifyLocalPlayerGameOver(n, Open(n), game1),
                             Ran("game:ended", n, 0, data.gameId, NoResult))
                  /\ UNCHANGED pendingGame
         ELSE /\ UNCHANGED <<games, pendingGame>>
              /\ Handled(n, << >>, Ran("game:ended", n, 0, data.gameId, NoResult))

\* the subscriber callback of node n is handed the move-made envelope at the
\* head of its channel twice: a copy joins the end of the channel, unless one is
\* in the channel already
replayMoveMade(n) ==
  /\ Incoming(n, "MOVE_MADE")
  /\ \A k \in 2 .. Len(chan[n]) : chan[n][k] # chan[n][1]
  /\ chan' = [chan EXCEPT ![n] = @ \o << Head(@) >>]
  /\ sent' = << >>
  /\ inbox' = inbox
  /\ published' = << >>
  /\ last' = Ran("replay", n, 0, Head(chan[n]).gameId, NoResult)
  /\ UNCHANGED <<games, clients, pendingGame, isConnected, publisherUp, nextSock, nextPid, nextGid,
                 moves, refused>>
  /\ UNCHANGED engineVars

\* the subscriber callback of node n is handed the player-waiting envelope at
\* the head of its channel twice: a copy joins the end of the channel, unless
\* one is in the channel already
replayPlayerWaiting(n) ==
  /\ Incoming(n, "PLAYER_WAITING")
  /\ \A k \in 2 .. Len(chan[n]) : chan[n][k] # chan[n][1]
  /\ chan' = [chan EXCEPT ![n] = @ \o << Head(@) >>]
  /\ sent' = << >>
  /\ inbox' = inbox
  /\ published' = << >>
  /\ last' = Ran("replay", n, 0, Head(chan[n]).gameId, NoResult)
  /\ UNCHANGED <<games, clients, pendingGame, isConnected, publisherUp, nextSock, nextPid, nextGid,
                 moves, refused>>
  /\ UNCHANGED engineVars

\* the publisher client of node n loses its connection to the broker: the
\* error is logged, isConnected stays as it is, and a publish fails from now on
publisherFails(n) ==
  /\ publisherUp[n]
  /\ publisherUp' = [publisherUp EXCEPT ![n] = FALSE]
  /\ sent' = << >>
  /\ inbox' = inbox
  /\ published' = << >>
  /\ last' = Ran("publisher:error", n, 0, Nil, NoResult)
  /\ UNCHANGED <<games, clients, pendingGame, isConnected, chan, nextSock, nextPid,
                 nextGid, moves, refused>>
  /\ UNCHANGED engineVars

\* the publisher client of node n has its connection back
publisherRecovers(n) ==
  /\ ~publisherUp[n]
  /\ publisherUp' = [publisherUp EXCEPT ![n] = TRUE]
  /\ sent' = << >>
  /\ inbox' = inbox
  /\ published' = << >>
  /\ last' = Ran("publisher:ready", n, 0, Nil, NoResult)
  /\ UNCHANGED <<games, clients, pendingGame, isConnected, chan, nextSock, nextPid,
                 nextGid, moves, refused>>
  /\ UNCHANGED engineVars

\* --------------------------------------------------- specification ----
\* both servers constructed and started: empty tables, federation connected
NodesInit ==
  /\ games = [n \in Nodes |-> << >>]
  /\ clients = [n \in Nodes |-> << >>]
  /\ pendingGame = [n \in Nodes |-> Nil]
  /\ isConnected = [n \in Nodes |-> TRUE]
  /\ publisherUp = [n \in Nodes |-> TRUE]
  /\ chan = [n \in Nodes |-> << >>]
  /\ nextSock = 0
  /\ nextPid = [n \in Nodes |-> 0]
  /\ nextGid = [n \in Nodes |-> 0]
  /\ moves = 0
  /\ refused = 0
  /\ inbox = [s \in SocketIds |-> {}]
  /\ sent = << >>
  /\ published = << >>
  /\ last = Ran("start", SERVER_A_ID, 0, Nil, NoResult)

NoCall == [op |-> "none", row |-> 0, col |-> 0, playerId |-> Nil]

Init ==
  /\ NodesInit
  /\ eGame = NewGame(UnknownGame, << >>)
  /\ eCall = NoCall
  /\ eRes = NoResult

\* Dropping an envelope that came back to its sender touches nothing but the
\* channel and commutes with every other step: it is taken before anything else.
Settled == \A m \in Nodes : ~(chan[m] # << >> /\ Head(chan[m]).toServerId # m)

\* client events handled so far: connections, joins, moves (accepted or not)
\* and closes
Requests ==
  nextSock + nextPid[SERVER_A_ID] + nextPid[SERVER_B_ID] + moves + refused
    + (nextSock - Cardinality(Open(SERVER_A_ID) \cup Open(SERVER_B_ID)))

\* the environment of SpecPlay: at most maxConns sockets, maxJoins joins,
\* maxMoves accepted moves
Within(maxConns, maxJoins, maxMoves) ==
  /\ nextSock' <= maxConns
  /\ nextPid'[SERVER_A_ID] + nextPid'[SERVER_B_ID] <= maxJoins
  /\ moves' <= maxMoves

Next ==
  \/ \E n \in Nodes : Settled /\ Requests < MaxRequests /\ Connect(n)
  \/ \E n \in Nodes : \E socket \in SocketIds :
       Settled /\ Requests < MaxRequests /\ handleJoinGame(n, socket)
  \/ \E n \in Nodes : \E socket \in SocketIds :
       \E gameId \in DOMAIN games[n] \cup {UnknownGame} :
         \E row \in MoveRows : \E col \in MoveCols :
           /\ Settled
           /\ Requests < MaxRequests
           /\ handleMakeMove(n, socket, gameId, row, col)
  \/ \E n \in Nodes : \E socket \in SocketIds :
       Settled /\ Requests < MaxRequests /\ handleClientDisconnect(n, socket)
  \/ \E n \in Nodes : dropForeign(n)
  \/ \E n \in Nodes : Settled /\ onPlayerWaiting(n)
  \/ \E n \in Nodes : Settled /\ onPlayerJoined(n)
  \/ \E n \in Nodes : Settled /\ onMoveMade(n)
  \/ \E n \in Nodes : Settled /\ onGameEnded(n)

Spec == Init /\ [][Next]_vars

\* Whole games: the first two clients connect to node A and the later ones to
\* node B, each joins once, stays connected and only sends moves the engine
\* accepts, X always in the top row and O in the middle row; up to PlayMoves
\* moves, enough for X to win.
PlayRow(sym) == IF sym = PLAYER_X THEN 0 ELSE 1
PlayNode(socket) == IF socket <= 2 THEN SERVER_A_ID ELSE SERVER_B_ID

PlayNext ==
  \/ \E n \in Nodes :
       /\ Settled
       /\ n = PlayNode(nextSock + 1)
       /\ Connect(n)
       /\ Within(PlayConns, PlayJoins, PlayMoves)
  \/ \E n \in Nodes : \E socket \in SocketIds :
       /\ Settled
       /\ socket \in Open(n)
       /\ clients[n][socket].playerId = Nil
       /\ handleJoinGame(n, socket)
       /\ Within(PlayConns, PlayJoins, PlayMoves)
  \/ \E n \in Nodes : \E socket \in SocketIds :
       \E gameId \in DOMAIN games[n] : \E col \in Idx :
         /\ Settled
         /\ handleMakeMove(n, socket, gameId, PlayRow(games[n][gameId].currentTurn), col)
         /\ last'.result.valid
         /\ Within(PlayConns, PlayJoins, PlayMoves)
  \/ \E n \in Nodes : dropForeign(n)
  \/ \E n \in Nodes : Settled /\ onPlayerWaiting(n)
  \/ \E n \in Nodes : Settled /\ onPlayerJoined(n)
  \/ \E n \in Nodes : Settled /\ onMoveMade(n)
  \/ \E n \in Nodes : Settled /\ onGameEnded(n)

SpecPlay == Init /\ [][PlayNext]_vars

\* One player per node: each node handles one JOIN_GAME, nobody disconnects, and
\* the channel hands over every envelope it holds (weak fairness of delivery).
PairDeliver(n) ==
  \/ dropForeign(n)
  \/ Settled /\ onPlayerWaiting(n)
  \/ Settled /\ onPlayerJoined(n)
  \/ Settled /\ onMoveMade(n)

PairNext ==
  \/ \E n \in Nodes : Settled /\ Requests < MaxRequests /\ Connect(n)
  \/ \E n \in Nodes : \E socket \in SocketIds :
       /\ Settled
       /\ Requests < MaxRequests
       /\ nextPid[n] = 0
       /\ handleJoinGame(n, socket)
  \/ \E n \in Nodes : \E socket \in SocketIds :
       \E gameId \in DOMAIN games[n] \cup {UnknownGame} :
         \E row \in MoveRows : \E col \in MoveCols :
           /\ Settled
           /\ Requests < MaxRequests
           /\ handleMakeMove(n, socket, gameId, row, col)
  \/ \E n \in Nodes : PairDeliver(n)

SpecPair == Init /\ [][PairNext]_vars /\ \A n \in Nodes : WF_vars(PairDeliver(n))

\* One game to its end: one client connects to node A and one to node B, each
\* joins once, the moves sent are moves the engine accepts (X in the top row, O
\* in the middle row: X completes its row with the fifth move), either client
\* may close its connection at any time, and every federation event may be
\* delivered.
FinishNode(socket) == IF socket = 1 THEN SERVER_A_ID ELSE SERVER_B_ID

FinishNext ==
  \/ \E n \in Nodes :
       /\ Settled
       /\ nextSock < Cardinality(Nodes)
       /\ n = FinishNode(nextSock + 1)
       /\ Connect(n)
  \/ \E n \in Nodes : \E socket \in SocketIds :
       /\ Settled
       /\ socket \in Open(n)
       /\ clients[n][socket].playerId = Nil
       /\ handleJoinGame(n, socket)
  \/ \E n \in Nodes : \E socket \in SocketIds :
       \E gameId \in DOMAIN games[n] : \E col \in Idx :
         /\ Settled
         /\ handleMakeMove(n, socket, gameId, PlayRow(games[n][gameId].currentTurn), col)
         /\ last'.result.valid
  \/ \E n \in Nodes : \E socket \in SocketIds :
       Settled /\ handleClientDisconnect(n, socket)
  \/ \E n \in Nodes : dropForeign(n)
  \/ \E n \in Nodes : Settled /\ onPlayerWaiting(n)
  \/ \E n \in Nodes : Settled /\ onPlayerJoined(n)
  \/ \E n \in Nodes : Settled /\ onMoveMade(n)
  \/ \E n \in Nodes : Settled /\ onGameEnded(n)

SpecFinish == Init /\ [][FinishNext]_vars

\* One game between a client of node A and a client of node B, on a topic that
\* may hand a node a move-made envelope a second time. Each client joins once
\* and may close its connection at any time; the moves sent are moves the engine
\* accepts, each symbol filling its row (X the top row, O the middle row) from
\* the left. A replay can take a record back, so the accepted moves are counted:
\* at most ReplayMoves.
ReplayCol(game) ==
  Cardinality({c \in Idx : game.board[PlayRow(game.currentTurn)][c] # EMPTY_CELL})

ReplayNext ==
  \/ \E n \in Nodes :
       /\ Settled
       /\ nextSock < Cardinality(Nodes)
       /\ n = FinishNode(nextSock + 1)
       /\ Connect(n)
  \/ \E n \in Nodes : \E socket \in SocketIds :
       /\ Settled
       /\ socket \in Open(n)
       /\ clients[n][socket].playerId = Nil
       /\ handleJoinGame(n, socket)
  \/ \E n \in Nodes : \E socket \in SocketIds : \E gameId \in DOMAIN games[n] :
       /\ Settled
       /\ handleMakeMove(n, socket, gameId, PlayRow(games[n][gameId].currentTurn),
                         ReplayCol(games[n][gameId]))
       /\ last'.result.valid
       /\ moves' <= ReplayMoves
  \/ \E n \in Nodes : \E socket \in SocketIds :
       Settled /\ handleClientDisconnect(n, socket)
  \/ \E n \in Nodes : dropForeign(n)
  \/ \E n \in Nodes : Settled /\ onPlayerWaiting(n)
  \/ \E n \in Nodes : Settled /\ onPlayerJoined(n)
  \/ \E n \in Nodes : Settled /\ onMoveMade(n)
  \/ \E n \in Nodes : Settled /\ onGameEnded(n)
  \/ \E n \in Nodes : Settled /\ replayMoveMade(n)

SpecReplay == Init /\ [][ReplayNext]_vars

\* The game of SpecFinish on a topic that may hand a node a player-waiting
\* envelope a second time.
RewaitNext ==
  \/ FinishNext
  \/ \E n \in Nodes : Settled /\ replayPlayerWaiting(n)

SpecRewait == Init /\ [][RewaitNext]_vars

\* CrossConns clients, the first two on node B and the later ones on node A: each joins
\* once, the moves sent are moves the engine accepts, each symbol filling its
\* row from the left (X the top row, O the middle row), at most CrossMoves of
\* them. One of the clients may leave: the only connection that closes is that
\* of a local player of a PLAYING game whose other slot holds a player of the
\* partner node with an open connection there, and nothing closes after it. The
\* channel hands over every envelope it holds (weak fairness of delivery).
CrossConns == 3
CrossMoves == 3
CrossNode(socket) == IF socket <= 2 THEN SERVER_B_ID ELSE SERVER_A_ID

OpponentStays(n, socket) ==
  LET connection == clients[n][socket]
      gameId == connection.gameId
  IN  /\ gameId # Nil
      /\ gameId \in DOMAIN games[n]
      /\ games[n][gameId].state = PLAYING
      /\ \E sym \in DOMAIN games[n][gameId].players :
           /\ games[n][gameId].players[sym].id = connection.playerId
           /\ Other(sym) \in DOMAIN games[n][gameId].players
           /\ games[n][gameId].players[Other(sym)].serverId = Partner(n)
           /\ \E other \in Open(Partner(n)) :
                /\ clients[Partner(n)][other].playerId
                     = games[n][gameId].players[Other(sym)].id
                /\ clients[Partner(n)][other].gameId = gameId

NobodyLeft == \A socket \in 1 .. nextSock : \E n \in Nodes : socket \in Open(n)

Deliver(n) ==
  \/ dropForeign(n)
  \/ Settled /\ onPlayerWaiting(n)
  \/ Settled /\ onPlayerJoined(n)
  \/ Settled /\ onMoveMade(n)
  \/ Settled /\ onGameEnded(n)

LeaveNext ==
  \/ \E n \in Nodes :
       /\ Settled
       /\ nextSock < CrossConns
       /\ n = CrossNode(nextSock + 1)
       /\ Connect(n)
  \/ \E n \in Nodes : \E socket \in SocketIds :
       /\ Settled
       /\ socket \in Open(n)
       /\ clients[n][socket].playerId = Nil
       /\ handleJoinGame(n, socket)
  \/ \E n \in Nodes : \E socket \in SocketIds : \E gameId \in DOMAIN games[n] :
       /\ Settled
       /\ handleMakeMove(n, socket, gameId, PlayRow(games[n][gameId].currentTurn),
                         ReplayCol(games[n][gameId]))
       /\ last'.result.valid
       /\ moves' <= CrossMoves
  \/ \E n \in Nodes : \E socket \in SocketIds :
       /\ Settled
       /\ NobodyLeft
       /\ socket \in Open(n)
       /\ OpponentStays(n, socket)
       /\ handleClientDisconnect(n, socket)
  \/ \E n \in Nodes : Deliver(n)

SpecLeave == Init /\ [][LeaveNext]_vars /\ \A n \in Nodes : WF_vars(Deliver(n))

\* Two clients, each on either node, over publishers that may fail and recover:
\* each client joins once and may close its connection at any time, the moves
\* sent are moves the engine accepts, each symbol filling its row from the left
\* (X the top row, O the middle row), and the channel hands over every
\* federation event that was published (weak fairness of delivery).
LossyConns == 2

LossyNext ==
  \/ \E n \in Nodes :
       /\ Settled
       /\ nextSock < LossyConns
       /\ Connect(n)
  \/ \E n \in Nodes : \E socket \in SocketIds :
       /\ Settled
       /\ socket \in Open(n)
       /\ clients[n][socket].playerId = Nil
       /\ handleJoinGame(n, socket)
  \/ \E n \in Nodes : \E socket \in SocketIds : \E gameId \in DOMAIN games[n] :
       /\ Settled
       /\ handleMakeMove(n, socket, gameId, PlayRow(games[n][gameId].currentTurn),
                         ReplayCol(games[n][gameId]))
       /\ last'.result.valid
  \/ \E n \in Nodes : \E socket \in SocketIds :
       Settled /\ handleClientDisconnect(n, socket)
  \/ \E n \in Nodes : dropForeign(n)
  \/ \E n \in Nodes : Settled /\ onPlayerWaiting(n)
  \/ \E n \in Nodes : Settled /\ onPlayerJoined(n)
  \/ \E n \in Nodes : Settled /\ onMoveMade(n)
  \/ \E n \in Nodes : Settled /\ onGameEnded(n)
  \/ \E n \in Nodes : Settled /\ publisherFails(n)
  \/ \E n \in Nodes : Settled /\ publisherRecovers(n)

SpecLossy == Init /\ [][LossyNext]_vars /\ \A n \in Nodes : WF_vars(Deliver(n))

\* Two clients on one node: both connect to node A and join once, which pairs
\* them with each other; they send moves the engine accepts, X in the top row
\* for its first two marks and in the bottom row after that, O in the middle
\* row, so that O completes its row with the sixth move. Node B has no client
\* and handles what A publishes.
Marks(board, sym) ==
  Cardinality({rc \in Idx \X Idx : board[rc[1]][rc[2]] = sym})
SameNodeRow(game) ==
  IF game.currentTurn = PLAYER_O THEN 1
  ELSE IF Marks(game.board, PLAYER_X) < 2 THEN 0 ELSE 2

SameNodeNext ==
  \/ /\ Settled
     /\ nextSock < Cardinality(Symbols)
     /\ Connect(SERVER_A_ID)
  \/ \E socket \in SocketIds :
       /\ Settled
       /\ socket \in Open(SERVER_A_ID)
       /\ clients[SERVER_A_ID][socket].playerId = Nil
       /\ handleJoinGame(SERVER_A_ID, socket)
  \/ \E socket \in SocketIds : \E gameId \in DOMAIN games[SERVER_A_ID] : \E col \in Idx :
       /\ Settled
       /\ handleMakeMove(SERVER_A_ID, socket, gameId,
                         SameNodeRow(games[SERVER_A_ID][gameId]), col)
       /\ last'.result.valid
  \/ \E n \in Nodes : dropForeign(n)
  \/ \E n \in Nodes : Settled /\ onPlayerWaiting(n)
  \/ \E n \in Nodes : Settled /\ onPlayerJoined(n)
  \/ \E n \in Nodes : Settled /\ onMoveMade(n)
  \/ \E n \in Nodes : Settled /\ onGameEnded(n)

SpecSameNode == Init /\ [][SameNodeNext]_vars

\* ------------------------------------------------ GameEngine harness ----
\* The engine is stateless: it is exercised on its own, on every board.
Cells == {EMPTY_CELL, PLAYER_X, PLAYER_O}
AllBoards == [Idx -> [Idx -> Cells]]
\* row / col values handed to the engine: the grid and one value off each side
Coords == -1 .. BOARD_SIZE

EnginePlayers ==
  (PLAYER_X :> Player(<<SERVER_A_ID, 1>>, PLAYER_X, 1, SERVER_A_ID)) @@
  (PLAYER_O :> Player(<<SERVER_B_ID, 1>>, PLAYER_O, 0, SERVER_B_ID))
EnginePlayerIds == {EnginePlayers[sym].id : sym \in Symbols}

EngineInit ==
  /\ NodesInit
  /\ \E board \in AllBoards : \E state \in GameStates : \E turn \in Symbols :
       eGame = [NewGame(<<SERVER_A_ID, 1>>, EnginePlayers) EXCEPT
                  !.board = board, !.state = state, !.currentTurn = turn]
  /\ eCall = NoCall
  /\ eRes = NoResult

callMakeMove(row, col, playerId) ==
  /\ eCall.op = "none"
  /\ LET mm == makeMove(eGame, row, col, playerId)
     IN  /\ eGame' = mm.game
         /\ eRes' = mm.result
  /\ eCall' = [op |-> "makeMove", row |-> row, col |-> col, playerId |-> playerId]
  /\ UNCHANGED nodeVars

callCheckWinner ==
  /\ eCall.op = "none"
  /\ eRes' = checkWinner(eGame.board)
  /\ eCall' = [NoCall EXCEPT !.op = "checkWinner"]
  /\ UNCHANGED eGame
  /\ UNCHANGED nodeVars

EngineNext ==
  \/ \E row \in Coords : \E col \in Coords : \E playerId \in EnginePlayerIds :
       callMakeMove(row, col, playerId)
  \/ callCheckWinner

SpecEngine == EngineInit /\ [][EngineNext]_vars

\* ------------------------------------------------------------ claims ----
Local(n, game, sym) == sym \in DOMAIN game.players /\ game.players[sym].serverId = n

\* C1: no game record of a node has both symbol slots held by players that the
\* node itself owns.
C1_NeverTwoLocalPlayers ==
  \A n \in Nodes : \A g \in DOMAIN games[n] :
    ~(Local(n, games[n][g], PLAYER_X) /\ Local(n, games[n][g], PLAYER_O))

\* the two joiners, one per node
PairPlayers == {<<SERVER_A_ID, 1>>, <<SERVER_B_ID, 1>>}
BothJoined == \A n \in Nodes : nextPid[n] = 1
GotGameState(playerId) ==
  \E n \in Nodes : \E socket \in Open(n) :
    clients[n][socket].playerId = playerId /\ "GAME_STATE" \in inbox[socket]
PairPlaying ==
  /\ \E g \in DOMAIN games[SERVER_A_ID] \cap DOMAIN games[SERVER_B_ID] :
       \A n \in Nodes :
         /\ games[n][g].state = PLAYING
         /\ DOMAIN games[n][g].players = Symbols
         /\ {games[n][g].players[sym].id : sym \in Symbols} = PairPlayers
  /\ \A playerId \in PairPlayers : GotGameState(playerId)

\* C2: once one player has joined on node A and one on node B, with nobody
\* disconnecting and every envelope delivered, eventually one game is PLAYING on
\* both nodes with the two players in its slots and both clients have GAME_STATE.
C2_PairEventuallyPlays == BothJoined ~> PairPlaying

\* C3: while only one node has had joiners, two or more of them, no game on any
\* node has left WAITING.
C3_SameNodeJoinersWait ==
  \A n \in Nodes :
    (nextPid[n] >= 2 /\ nextPid[Partner(n)] = 0)
      => \A m \in Nodes : \A g \in DOMAIN games[m] : games[m][g].state = WAITING

Rank(state) == IF state = WAITING THEN 0 ELSE IF state = PLAYING THEN 1 ELSE 2

\* C4: the lifecycle state of a game record never moves backward.
C4_LifecycleOnlyAdvances ==
  [][\A n \in Nodes : \A g \in DOMAIN games[n] \cap DOMAIN games'[n] :
       Rank(games'[n][g].state) >= Rank(games[n][g].state)]_vars

\* C5: a cell of a game record that holds X or O holds the same mark in the
\* next state of that record.
C5_MarksStay ==
  [][\A n \in Nodes : \A g \in DOMAIN games[n] \cap DOMAIN games'[n] :
       \A r \in Idx : \A c \in Idx :
         games[n][g].board[r][c] # EMPTY_CELL
           => games'[n][g].board[r][c] = games[n][g].board[r][c]]_vars

NothingInFlight == \A n \in Nodes : chan[n] = << >>

\* C6: with no federation event in flight, a game with a record on both nodes
\* has the same board, currentTurn and lifecycle state on both.
C6_MirrorsAgree ==
  NothingInFlight =>
    \A g \in DOMAIN games[SERVER_A_ID] \cap DOMAIN games[SERVER_B_ID] :
      /\ games[SERVER_A_ID][g].board = games[SERVER_B_ID][g].board
      /\ games[SERVER_A_ID][g].currentTurn = games[SERVER_B_ID][g].currentTurn
      /\ games[SERVER_A_ID][g].state = games[SERVER_B_ID][g].state

\* C7: a move-made event is never applied to a game whose record on the
\* receiving node is still WAITING.
C7_MoveMadeNeverOnWaiting ==
  [][\A n \in Nodes :
       (/\ Incoming(n, "MOVE_MADE")
        /\ chan'[n] = Tail(chan[n])
        /\ Head(chan[n]).gameId \in DOMAIN games[n])
         => games[n][Head(chan[n]).gameId].state # WAITING]_vars

\* a move-made event has just been applied to a game that the receiving node
\* had made PLAYING on a player-joined event, and its local player was told
C7_Witness ==
  /\ last.op = "move:made"
  /\ \E i \in DOMAIN sent :
       /\ sent[i].msg.type = "OPPONENT_MOVE"
       /\ sent[i].node = last.node
       /\ games[last.node][sent[i].msg.gameId].state = PLAYING
       /\ games[last.node][sent[i].msg.gameId].board # createEmptyBoard
       /\ "GAME_STATE" \in inbox[sent[i].socket]

RejectReasons == {"Game is not in progress", "Not your turn", InvalidCoordinates,
                  "Cell is already occupied"}

\* C8: when the engine rejects a MAKE_MOVE, every game record of the node (board,
\* currentTurn, lifecycle state, winner) is as before, the one message sent is
\* MOVE_REJECTED with the engine's reason, to the mover, and nothing is published.
C8_RejectedMoveChangesNothing ==
  [][(last'.op = "MAKE_MOVE" /\ ~last'.result.valid /\ last'.result.reason # "")
       => /\ last'.result.reason \in RejectReasons
          /\ games' = games
          /\ sent' = << [node |-> last'.node, socket |-> last'.socket,
                         msg |-> [type |-> "MOVE_REJECTED",
                                  reason |-> last'.result.reason]] >>
          /\ published' = << >>
          /\ chan' = chan]_vars

\* a move on an occupied cell of a game in progress has just been rejected
C8_Witness ==
  /\ last.op = "MAKE_MOVE"
  /\ last.result.reason = "Cell is already occupied"
  /\ \E n \in Nodes : \E g \in DOMAIN games[n] :
       games[n][g].state = PLAYING /\ games[n][g].board # createEmptyBoard

\* the eight lines of the grid
WinLines ==
  {<< <<r, 0>>, <<r, 1>>, <<r, 2>> >> : r \in Idx} \cup
  {<< <<0, c>>, <<1, c>>, <<2, c>> >> : c \in Idx} \cup
  {<< <<0, 0>>, <<1, 1>>, <<2, 2>> >>, << <<0, 2>>, <<1, 1>>, <<2, 0>> >>}
At(board, cell) == board[cell[1]][cell[2]]
Uniform(board, line) ==
  /\ At(board, line[1]) # EMPTY_CELL
  /\ At(board, line[1]) = At(board, line[2])
  /\ At(board, line[2]) = At(board, line[3])

\* C9: checkWinner returns a winner exactly when one of the 3 rows, 3 columns or
\* 2 diagonals holds three equal non-empty marks, and the winner is the mark of
\* such a line.
C9_CheckWinnerIffUniformLine ==
  eCall.op = "checkWinner" =>
    /\ (eRes.winner # NoWinner) <=> (\E line \in WinLines : Uniform(eGame.board, line))
    /\ (eRes.winner # NoWinner) =>
         \E line \in WinLines : /\ Uniform(eGame.board, line)
                                /\ At(eGame.board, line[1]) = eRes.winner

\* checkWinner has answered O on a board whose only uniform line is the
\* diagonal from the top right to the bottom left
C9_Witness ==
  /\ eCall.op = "checkWinner"
  /\ eRes.winner = PLAYER_O
  /\ {line \in WinLines : Uniform(eGame.board, line)}
       = {<< <<0, 2>>, <<1, 1>>, <<2, 0>> >>}

\* the symbol of the player who made the call
MoverSymbol(game, playerId) ==
  CHOOSE sym \in DOMAIN game.players : game.players[sym].id = playerId

\* C10: an accepted move puts the mover's symbol in the target cell and changes no
\* other cell; if it does not end the game currentTurn becomes the symbol that did
\* not move, and if it ends the game currentTurn is left as it was.
C10_AcceptedMoveMarksAndFlips ==
  [][(eCall.op = "none" /\ eCall'.op = "makeMove" /\ eRes'.valid)
       => LET mover == MoverSymbol(eGame, eCall'.playerId)
          IN  /\ eGame'.board[eCall'.row][eCall'.col] = mover
              /\ \A r \in Idx : \A c \in Idx :
                   (r # eCall'.row \/ c # eCall'.col)
                     => eGame'.board[r][c] = eGame.board[r][c]
              /\ ~eRes'.gameOver => eGame'.currentTurn = Other(mover)
              /\ eRes'.gameOver => eGame'.currentTurn = eGame.currentTurn]_vars

\* O has made an accepted move that won the game, and it is still O's turn
C10_Witness ==
  /\ eCall.op = "makeMove"
  /\ eRes.valid /\ eRes.gameOver /\ eRes.winner = PLAYER_O
  /\ eGame.currentTurn = PLAYER_O

\* C11: an accepted move reports DRAW only if, with the mark placed, no line is
\* uniform and no cell is empty; an accepted move that fills the last empty cell
\* of a board without a line and completes one reports the mover's symbol.
C11_DrawOnlyWithoutLine ==
  [][(eCall.op = "none" /\ eCall'.op = "makeMove" /\ eRes'.valid)
       => /\ eRes'.winner = DRAW
               => /\ \A line \in WinLines : ~Uniform(eGame'.board, line)
                  /\ \A r \in Idx : \A c \in Idx : eGame'.board[r][c] # EMPTY_CELL
          /\ (/\ \A line \in WinLines : ~Uniform(eGame.board, line)
              /\ \A r \in Idx : \A c \in Idx : eGame'.board[r][c] # EMPTY_CELL
              /\ \E line \in WinLines : Uniform(eGame'.board, line))
               => /\ eRes'.gameOver
                  /\ eRes'.winner = eGame.currentTurn
                  /\ eGame'.winner = eGame.currentTurn]_vars

\* X has filled the last empty cell, every uniform line of the full board runs
\* through that cell, and the move was reported as won by X
C11_Witness ==
  /\ eCall.op = "makeMove"
  /\ eRes.valid /\ eRes.gameOver /\ eRes.winner = PLAYER_X
  /\ \A r \in Idx : \A c \in Idx : eGame.board[r][c] # EMPTY_CELL
  /\ \E line \in WinLines : Uniform(eGame.board, line)
  /\ \A line \in WinLines :
       Uniform(eGame.board, line)
         => \E i \in 1 .. 3 : line[i] = <<eCall.row, eCall.col>>

\* the four checks of makeMove on the game and the arguments it is handed
NotInProgress(game) == game.state # PLAYING
NotMoversTurn(game, playerId) ==
  \/ game.currentTurn \notin DOMAIN game.players
  \/ game.players[game.currentTurn].id # playerId
OffGrid(row, col) == row \notin Idx \/ col \notin Idx
Occupied(game, row, col) == ~OffGrid(row, col) /\ game.board[row][col] # EMPTY_CELL

\* C12: makeMove rejects with the reason of the first failing check, in the order
\* lifecycle state, turn, coordinates, occupied cell, and accepts a move that
\* passes all four.
C12_FirstFailingCheckRejects ==
  [][(eCall.op = "none" /\ eCall'.op = "makeMove")
       => LET row == eCall'.row
              col == eCall'.col
              playerId == eCall'.playerId
          IN  /\ NotInProgress(eGame)
                   => eRes' = Rejected("Game is not in progress")
              /\ (~NotInProgress(eGame) /\ NotMoversTurn(eGame, playerId))
                   => eRes' = Rejected("Not your turn")
              /\ (/\ ~NotInProgress(eGame) /\ ~NotMoversTurn(eGame, playerId)
                  /\ OffGrid(row, col))
                   => eRes' = Rejected(InvalidCoordinates)
              /\ (/\ ~NotInProgress(eGame) /\ ~NotMoversTurn(eGame, playerId)
                  /\ Occupied(eGame, row, col))
                   => eRes' = Rejected("Cell is already occupied")
              /\ (/\ ~NotInProgress(eGame) /\ ~NotMoversTurn(eGame, playerId)
                  /\ ~OffGrid(row, col) /\ ~Occupied(eGame, row, col))
                   => eRes'.valid]_vars

\* a move off the grid by the player whose turn it is not, on a game in
\* progress, has been rejected as "Not your turn"
C12_Witness ==
  /\ eCall.op = "makeMove"
  /\ eGame.state = PLAYING
  /\ OffGrid(eCall.row, eCall.col)
  /\ eGame.players[eGame.currentTurn].id # eCall.playerId
  /\ eRes = Rejected("Not your turn")

\* the one ERROR message a handler on node n sends to socket
ErrorTo(n, socket, errorMessage) ==
  << [node |-> n, socket |-> socket,
      msg |-> [type |-> "ERROR", message |-> errorMessage]] >>

\* C13, as stated: a MAKE_MOVE naming a game without a record on the node is
\* answered "Game not found" whether or not the connection has a player id, and
\* "Not authenticated" is answered only when the game has a record and the
\* connection has no player id.
C13_LookupBeforeAuthentication ==
  [][last'.op = "MAKE_MOVE"
       => LET n == last'.node
              socket == last'.socket
          IN  /\ last'.gameId \notin DOMAIN games[n]
                   => sent' = ErrorTo(n, socket, "Game not found")
              /\ sent' = ErrorTo(n, socket, "Not authenticated")
                   => /\ last'.gameId \in DOMAIN games[n]
                      /\ clients[n][socket].playerId = Nil]_vars

\* C13, amended: a MAKE_MOVE on a connection without a player id is answered "Not
\* authenticated" whether or not the named game has a record; one on a connection
\* with a player id naming a game without a record is answered "Game not found";
\* and "Game not found" is answered in that case only.
C13_AuthenticationBeforeLookup ==
  [][last'.op = "MAKE_MOVE"
       => LET n == last'.node
              socket == last'.socket
          IN  /\ clients[n][socket].playerId = Nil
                   => sent' = ErrorTo(n, socket, "Not authenticated")
              /\ (/\ clients[n][socket].playerId # Nil
                  /\ last'.gameId \notin DOMAIN games[n])
                   => sent' = ErrorTo(n, socket, "Game not found")
              /\ sent' = ErrorTo(n, socket, "Game not found")
                   => /\ clients[n][socket].playerId # Nil
                      /\ last'.gameId \notin DOMAIN games[n]]_vars

\* a connection that never joined has named a game without a record and was
\* answered "Not authenticated"
C13_Witness ==
  /\ last.op = "MAKE_MOVE"
  /\ last.socket \in Open(last.node)
  /\ clients[last.node][last.socket].playerId = Nil
  /\ last.gameId \notin DOMAIN games[last.node]
  /\ sent = ErrorTo(last.node, last.socket, "Not authenticated")

\* the symbol fixed by a node's identity
NodeSymbol(n) == IF n = SERVER_A_ID THEN PLAYER_X ELSE PLAYER_O

\* C14: a JOIN_GAME handled by a node without a pending game adds exactly one
\* game record: WAITING, empty board, the joiner alone in the slot of the node's
\* symbol; the record is the node's pending game, the one reply is GAME_JOINED
\* with waitingForOpponent true, and the one envelope published is a
\* player-waiting event for that game addressed to the partner.
C14_JoinWithoutPendingCreates ==
  [][(last'.op = "JOIN_GAME" /\ pendingGame[last'.node] = Nil)
       => LET n == last'.node
              socket == last'.socket
              g == last'.gameId
              sym == NodeSymbol(n)
          IN  /\ DOMAIN games'[n] = DOMAIN games[n] \cup {g}
              /\ g \notin DOMAIN games[n]
              /\ \A h \in DOMAIN games[n] : games'[n][h] = games[n][h]
              /\ games'[n][g].state = WAITING
              /\ games'[n][g].board = [r \in Idx |-> [c \in Idx |-> EMPTY_CELL]]
              /\ DOMAIN games'[n][g].players = {sym}
              /\ games'[n][g].players[sym].symbol = sym
              /\ games'[n][g].players[sym].socket = socket
              /\ games'[n][g].players[sym].serverId = n
              /\ games'[n][g].players[sym].id = clients'[n][socket].playerId
              /\ clients'[n][socket].gameId = g
              /\ pendingGame'[n] = g
              /\ Len(sent') = 1
              /\ sent'[1].socket = socket
              /\ sent'[1].msg.type = "GAME_JOINED"
              /\ sent'[1].msg.gameId = g
              /\ sent'[1].msg.playerSymbol = sym
              /\ sent'[1].msg.waitingForOpponent
              /\ Len(published') = 1
              /\ published'[1].type = "PLAYER_WAITING"
              /\ published'[1].fromServerId = n
              /\ published'[1].toServerId = Partner(n)
              /\ published'[1].gameId = g
              /\ published'[1].data.playerSymbol = sym
              /\ chan' = [m \in Nodes |-> chan[m] \o published']]_vars

\* node B, holding no pending game, has created a WAITING game for a joiner,
\* who holds O in it and was told to wait
C14_Witness ==
  /\ last.op = "JOIN_GAME"
  /\ last.node = SERVER_B_ID
  /\ pendingGame[SERVER_B_ID] = last.gameId
  /\ last.gameId \in DOMAIN games[SERVER_B_ID]
  /\ games[SERVER_B_ID][last.gameId].state = WAITING
  /\ DOMAIN games[SERVER_B_ID][last.gameId].players = {PLAYER_O}
  /\ Len(sent) = 1
  /\ sent[1].msg.type = "GAME_JOINED"
  /\ sent[1].msg.waitingForOpponent
  /\ Len(published) = 1
  /\ published[1].type = "PLAYER_WAITING"

\* game ids carry the node that generated them: a record under an id of the
\* partner was created by the player:waiting handler
CreatedBy(n, gameId) == gameId # Nil /\ gameId[1] = n

\* C15: a JOIN_GAME handled by a node whose pending game came from the partner
\* puts the joiner in the slot that was empty, makes the game PLAYING, clears the
\* pending reference, sends the joiner GAME_JOINED with waitingForOpponent false
\* and then GAME_STATE, and publishes one player-joined envelope to the partner.
C15_JoinOfPartnerGameStarts ==
  [][(last'.op = "JOIN_GAME" /\ CreatedBy(Partner(last'.node), pendingGame[last'.node]))
       => LET n == last'.node
              socket == last'.socket
              g == pendingGame[n]
          IN  /\ g \in DOMAIN games[n]
              /\ DOMAIN games'[n] = DOMAIN games[n]
              /\ \E sym \in Symbols :
                   /\ sym \notin DOMAIN games[n][g].players
                   /\ DOMAIN games'[n][g].players = DOMAIN games[n][g].players \cup {sym}
                   /\ \A other \in DOMAIN games[n][g].players :
                        games'[n][g].players[other] = games[n][g].players[other]
                   /\ games'[n][g].players[sym] =
                        Player(clients'[n][socket].playerId, sym, socket, n)
                   /\ sent'[1].msg.playerSymbol = sym
                   /\ sent'[2].msg.yourSymbol = sym
                   /\ published'[1].data.playerSymbol = sym
                   /\ published'[1].data.playerId = clients'[n][socket].playerId
              /\ games'[n][g].state = PLAYING
              /\ pendingGame'[n] = Nil
              /\ clients'[n][socket].gameId = g
              /\ Len(sent') = 2
              /\ sent'[1].socket = socket /\ sent'[2].socket = socket
              /\ sent'[1].msg.type = "GAME_JOINED"
              /\ sent'[1].msg.gameId = g
              /\ ~sent'[1].msg.waitingForOpponent
              /\ sent'[2].msg.type = "GAME_STATE"
              /\ sent'[2].msg.gameId = g
              /\ Len(published') = 1
              /\ published'[1].type = "PLAYER_JOINED"
              /\ published'[1].toServerId = Partner(n)
              /\ published'[1].gameId = g
              /\ chan' = [m \in Nodes |-> chan[m] \o published']]_vars

\* node B has joined a client as O to the game node A's player is waiting in:
\* the game is PLAYING on B, B's pending reference is clear, the client got
\* GAME_JOINED and GAME_STATE
C15_Witness ==
  /\ last.op = "JOIN_GAME"
  /\ last.node = SERVER_B_ID
  /\ CreatedBy(SERVER_A_ID, last.gameId)
  /\ games[SERVER_B_ID][last.gameId].state = PLAYING
  /\ games[SERVER_B_ID][last.gameId].players[PLAYER_O].socket = last.socket
  /\ games[SERVER_B_ID][last.gameId].players[PLAYER_X].serverId = SERVER_A_ID
  /\ pendingGame[SERVER_B_ID] = Nil
  /\ Len(sent) = 2
  /\ sent[2].msg.type = "GAME_STATE"
  /\ Len(published) = 1
  /\ published[1].type = "PLAYER_JOINED"

LocalWaiting(n) ==
  {g \in DOMAIN games[n] : CreatedBy(n, g) /\ games[n][g].state = WAITING}

\* C17: a node's table holds at most one game created by a local JOIN_GAME that
\* is still WAITING, and such a game is the one the pending reference names.
C17_OneLocalWaitingGameIsPending ==
  \A n \in Nodes :
    /\ Cardinality(LocalWaiting(n)) <= 1
    /\ \A g \in LocalWaiting(n) : pendingGame[n] = g

\* C18: a filled symbol slot of a game record keeps its player: no step, be it
\* a local join or the handling of a player-joined event, writes another player
\* over it.
C18_SlotsNeverOverwritten ==
  [][\A n \in Nodes : \A g \in DOMAIN games[n] \cap DOMAIN games'[n] :
       \A sym \in DOMAIN games[n][g].players :
         /\ sym \in DOMAIN games'[n][g].players
         /\ games'[n][g].players[sym].id = games[n][g].players[sym].id]_vars

\* C19: every game record in PLAYING state has a player in the X slot and a
\* player in the O slot.
C19_PlayingHasBothPlayers ==
  \A n \in Nodes : \A g \in DOMAIN games[n] :
    games[n][g].state = PLAYING => DOMAIN games[n][g].players = Symbols

\* node A has handled the player-joined event of node B for the game its own
\* player created: the game is PLAYING on A with a local X and a remote O
C19_Witness ==
  /\ last.op = "player:joined"
  /\ last.node = SERVER_A_ID
  /\ last.gameId \in DOMAIN games[SERVER_A_ID]
  /\ games[SERVER_A_ID][last.gameId].state = PLAYING
  /\ Local(SERVER_A_ID, games[SERVER_A_ID][last.gameId], PLAYER_X)
  /\ Local(SERVER_B_ID, games[SERVER_A_ID][last.gameId], PLAYER_O)

\* C20: every game record in FINISHED state has a winner: X, O or DRAW.
C20_FinishedHasWinner ==
  \A n \in Nodes : \A g \in DOMAIN games[n] :
    games[n][g].state = FINISHED => games[n][g].winner \in Symbols \cup {DRAW}

\* X has won by a local move on node A, whose record is FINISHED with winner X,
\* and node B has just applied A's game-ended event to its own record
C20_Witness ==
  /\ last.op = "game:ended"
  /\ last.node = SERVER_B_ID
  /\ \A n \in Nodes :
       /\ last.gameId \in DOMAIN games[n]
       /\ games[n][last.gameId].state = FINISHED
       /\ games[n][last.gameId].winner = PLAYER_X
       /\ games[n][last.gameId].winningLine.cells # << >>

\* the OPPONENT_MOVE message the move:made handler of node n sends for data
OpponentMove(n, game, data) ==
  LET lp == getLocalPlayer(n, game)
  IN  IF lp = << >> \/ lp[1].socket \notin Open(n) THEN << >>
      ELSE << [node |-> n, socket |-> lp[1].socket,
               msg |-> [type |-> "OPPONENT_MOVE", gameId |-> data.gameId,
                        row |-> data.row, col |-> data.col, board |-> data.board,
                        yourTurn |-> (data.nextTurn = lp[1].symbol)]] >>

\* C21: a move-made event delivered for a move the record already carries (its
\* cell is marked: the event was handled before) is handled again: board and
\* currentTurn become the payload's, whatever they were, and the local player is
\* sent OPPONENT_MOVE once more.
C21_ReplayedMoveIsReapplied ==
  [][\A n \in Nodes :
       (/\ Incoming(n, "MOVE_MADE")
        /\ chan'[n] = Tail(chan[n])
        /\ Head(chan[n]).gameId \in DOMAIN games[n]
        /\ LET data == Head(chan[n]).data
           IN  games[n][data.gameId].board[data.row][data.col] # EMPTY_CELL)
         => LET data == Head(chan[n]).data
                g == data.gameId
            IN  /\ games'[n][g].board = data.board
                /\ games'[n][g].currentTurn = data.nextTurn
                /\ sent' = OpponentMove(n, games[n][g], data)]_vars

\* node B has handled a move-made event of node A a second time after accepting
\* a move of its own player: the record on A carries an O, the record on B,
\* where O was played, carries none and says it is O's turn
C21_Witness ==
  /\ last.op = "move:made"
  /\ last.node = SERVER_B_ID
  /\ Len(sent) = 1
  /\ sent[1].msg.type = "OPPONENT_MOVE"
  /\ \A n \in Nodes : last.gameId \in DOMAIN games[n]
  /\ games[SERVER_B_ID][last.gameId].state = PLAYING
  /\ Local(SERVER_B_ID, games[SERVER_B_ID][last.gameId], PLAYER_O)
  /\ \E r \in Idx : \E c \in Idx :
       games[SERVER_A_ID][last.gameId].board[r][c] = PLAYER_O
  /\ \A r \in Idx : \A c \in Idx :
       games[SERVER_B_ID][last.gameId].board[r][c] # PLAYER_O
  /\ games[SERVER_B_ID][last.gameId].currentTurn = PLAYER_O

\* the positions of the envelopes of one type among those a handler published
Published(type) == {i \in DOMAIN published' : published'[i].type = type}

\* C22: for every accepted move the mover is sent MOVE_ACCEPTED and the node
\* publishes exactly one move-made envelope, addressed to the partner, whose
\* board and nextTurn are those of the node's record right after the move.
C22_AcceptedMovePublishesFullBoard ==
  [][(last'.op = "MAKE_MOVE" /\ last'.result.valid)
       => LET n == last'.node
              g == last'.gameId
          IN  /\ sent'[1].socket = last'.socket
              /\ sent'[1].msg.type = "MOVE_ACCEPTED"
              /\ sent'[1].msg.board = games'[n][g].board
              /\ sent'[1].msg.nextTurn = games'[n][g].currentTurn
              /\ Cardinality(Published("MOVE_MADE")) = 1
              /\ \A i \in Published("MOVE_MADE") :
                   /\ published'[i].fromServerId = n
                   /\ published'[i].toServerId = Partner(n)
                   /\ published'[i].gameId = g
                   /\ published'[i].data.board = games'[n][g].board
                   /\ published'[i].data.nextTurn = games'[n][g].currentTurn
                   /\ \E m \in Nodes : \E k \in DOMAIN chan'[m] :
                        chan'[m][k] = published'[i]]_vars

\* a move was accepted on a board that carried marks already: the move-made
\* envelope published holds the whole board of the record, three marks or more
C22_Witness ==
  /\ last.op = "MAKE_MOVE"
  /\ last.result.valid
  /\ Len(published) >= 1
  /\ published[1].type = "MOVE_MADE"
  /\ published[1].data.board = games[last.node][last.gameId].board
  /\ Cardinality({rc \in Idx \X Idx :
                    published[1].data.board[rc[1]][rc[2]] # EMPTY_CELL}) >= 3

\* C23: an accepted move that ends the game leaves the node's record FINISHED;
\* the node publishes a move-made and then a game-ended envelope for the game,
\* the latter with the winner, the winning line and the final board; the mover
\* is sent MOVE_ACCEPTED and then GAME_OVER. An accepted move that does not end
\* the game publishes no game-ended envelope.
C23_TerminalMoveEndsAndNotifies ==
  [][(last'.op = "MAKE_MOVE" /\ last'.result.valid)
       => LET n == last'.node
              g == last'.gameId
          IN  /\ last'.result.gameOver
                   => /\ games'[n][g].state = FINISHED
                      /\ Len(published') = 2
                      /\ published'[1].type = "MOVE_MADE"
                      /\ published'[1].gameId = g
                      /\ published'[2].type = "GAME_ENDED"
                      /\ published'[2].gameId = g
                      /\ published'[2].toServerId = Partner(n)
                      /\ published'[2].data.winner = last'.result.winner
                      /\ published'[2].data.winningLine = last'.result.winningLine
                      /\ published'[2].data.board = games'[n][g].board
                      /\ Len(sent') = 2
                      /\ sent'[1].socket = last'.socket
                      /\ sent'[1].msg.type = "MOVE_ACCEPTED"
                      /\ sent'[2].socket = last'.socket
                      /\ sent'[2].msg.type = "GAME_OVER"
              /\ ~last'.result.gameOver => Published("GAME_ENDED") = {}]_vars

\* node n takes the envelope of the given type at the head of its channel, for
\* a game it has a record of
Takes(n, type) ==
  /\ Incoming(n, type)
  /\ chan'[n] = Tail(chan[n])
  /\ Head(chan[n]).gameId \in DOMAIN games[n]

Gets(n, type) ==
  /\ Incoming(n, type)
  /\ chan'[n] = Tail(chan[n])

\* C25: handling a player-waiting event for a game id without a record adds a
\* WAITING record with an empty board, X to move, whose one player is the
\* partner's (the symbol and id of the event, owned by the partner node, no
\* connection), and makes the game the pending game; for a game id with a record
\* the games table and the pending reference stay as they were.
C25_PlayerWaitingCreatesMirrorOnce ==
  [][\A n \in Nodes :
       Gets(n, "PLAYER_WAITING")
         => LET data == Head(chan[n]).data
                g == data.gameId
            IN  IF g \in DOMAIN games[n]
                THEN /\ games' = games
                     /\ pendingGame' = pendingGame
                ELSE /\ DOMAIN games'[n] = DOMAIN games[n] \cup {g}
                     /\ \A h \in DOMAIN games[n] : games'[n][h] = games[n][h]
                     /\ \A m \in Nodes \ {n} : games'[m] = games[m]
                     /\ games'[n][g].state = WAITING
                     /\ games'[n][g].board = createEmptyBoard
                     /\ games'[n][g].currentTurn = PLAYER_X
                     /\ games'[n][g].winner = NoWinner
                     /\ DOMAIN games'[n][g].players = {data.playerSymbol}
                     /\ games'[n][g].players[data.playerSymbol] =
                          Player(data.playerId, data.playerSymbol, 0, Partner(n))
                     /\ pendingGame' = [pendingGame EXCEPT ![n] = g]]_vars

\* a node has taken a player-waiting event for a game it has as PLAYING, with
\* its own player in it: the record is still PLAYING with both players and the
\* node has no pending game
C25_Witness ==
  /\ last.op = "player:waiting"
  /\ last.gameId \in DOMAIN games[last.node]
  /\ LET game == games[last.node][last.gameId]
     IN  /\ game.state = PLAYING
         /\ DOMAIN game.players = {PLAYER_X, PLAYER_O}
         /\ \E s \in DOMAIN game.players : game.players[s].serverId = last.node
  /\ pendingGame[last.node] = Nil

\* the symbols of the game whose player is owned by node n
LocalSlots(n, game) == {s \in DOMAIN game.players : game.players[s].serverId = n}

\* C26: handling a player-joined event for a game with a record puts the
\* partner's player (the id and symbol of the event, no connection) in the slot
\* of the event's symbol and makes the game PLAYING, changing nothing else in the
\* table; it publishes nothing; a client message is a single GAME_STATE to the
\* connection of a player of the game owned by this node, and it is sent
\* whenever the game's local player has an open connection; with no slot held
\* by a player of this node no client message is sent.
C26_PlayerJoinedStartsAndNotifiesLocal ==
  [][\A n \in Nodes :
       Takes(n, "PLAYER_JOINED")
         => LET data == Head(chan[n]).data
                g == data.gameId
                partnerPlayer == Player(data.playerId, data.playerSymbol, 0, Partner(n))
            IN  /\ games' = [games EXCEPT ![n][g] =
                               [@ EXCEPT !.state = PLAYING,
                                         !.players = (data.playerSymbol :> partnerPlayer) @@ @]]
                /\ clients' = clients
                /\ published' = << >>
                /\ Len(sent') <= 1
                /\ LocalSlots(n, games'[n][g]) = {} => sent' = << >>
                /\ sent' # << >>
                     => /\ sent'[1].node = n
                        /\ sent'[1].msg.type = "GAME_STATE"
                        /\ sent'[1].msg.gameId = g
                        /\ \E s \in LocalSlots(n, games'[n][g]) :
                             /\ sent'[1].socket = games'[n][g].players[s].socket
                             /\ sent'[1].msg.yourSymbol = s
                /\ \A lp \in {getLocalPlayer(n, games'[n][g])} :
                     (lp # << >> /\ lp[1].socket \in Open(n)) => sent' # << >>]_vars

\* a node with a connected client has taken a player-joined event for a game
\* whose two players are both the partner's: the game is PLAYING and no client
\* was sent anything
C26_Witness ==
  /\ last.op = "player:joined"
  /\ last.gameId \in DOMAIN games[last.node]
  /\ LET game == games[last.node][last.gameId]
     IN  /\ game.state = PLAYING
         /\ DOMAIN game.players = {PLAYER_X, PLAYER_O}
         /\ LocalSlots(last.node, game) = {}
  /\ Open(last.node) # {}
  /\ sent = << >>

\* C27: handling a game-ended event for a game with a record, in whatever
\* lifecycle state, makes the record FINISHED with the winner, the winning line
\* and the board of the event, changing nothing else in the table, the pending
\* reference or the clients; it publishes nothing and sends one GAME_OVER with
\* that winner, line and board to the connection of the game's local player, if
\* the game has one whose connection is open, and nothing otherwise.
C27_GameEndedFinishesFromAnyState ==
  [][\A n \in Nodes :
       Takes(n, "GAME_ENDED")
         => LET data == Head(chan[n]).data
                g == data.gameId
                lp == getLocalPlayer(n, games[n][g])
            IN  /\ games' = [games EXCEPT ![n][g] =
                               [@ EXCEPT !.state = FINISHED,
                                         !.winner = data.winner,
                                         !.winningLine = data.winningLine,
                                         !.board = data.board]]
                /\ pendingGame' = pendingGame
                /\ clients' = clients
                /\ published' = << >>
                /\ IF lp # << >> /\ lp[1].socket \in Open(n)
                   THEN sent' = << [node |-> n, socket |-> lp[1].socket,
                                    msg |-> [type |-> "GAME_OVER", gameId |-> g,
                                             winner |-> data.winner,
                                             winningLine |-> data.winningLine,
                                             board |-> data.board]] >>
                   ELSE sent' = << >>]_vars

\* a node has taken a game-ended event for a game that its own player had won
\* with a full row: the record is FINISHED with the winner of the event and
\* an empty winning line, while its board holds the row, and the player was
\* sent GAME_OVER with the empty line
C27_Witness ==
  /\ last.op = "game:ended"
  /\ last.gameId \in DOMAIN games[last.node]
  /\ LET game == games[last.node][last.gameId]
     IN  /\ game.state = FINISHED
         /\ game.winner # NoWinner
         /\ game.winningLine = Line(<< >>)
         /\ checkWinner(game.board).winner = game.winner
         /\ Len(sent) = 1
         /\ sent[1].msg.type = "GAME_OVER"
         /\ sent[1].msg.winningLine = Line(<< >>)

\* the types of the federation events that refer to a game already known
GameEvents == {"PLAYER_JOINED", "MOVE_MADE", "GAME_ENDED"}

\* C28: handling a player-joined, move-made or game-ended event for a game id
\* without a record on the receiving node leaves the games table, the pending
\* reference and the clients as they were, sends no client message and
\* publishes nothing.
C28_UnknownGameEventIgnored ==
  [][\A n \in Nodes : \A type \in GameEvents :
       (Gets(n, type) /\ Head(chan[n]).gameId \notin DOMAIN games[n])
         => /\ games' = games
            /\ pendingGame' = pendingGame
            /\ clients' = clients
            /\ sent' = << >>
            /\ inbox' = inbox
            /\ published' = << >>
            /\ \A m \in Nodes \ {n} : chan'[m] = chan[m]]_vars

\* a node has taken a move-made event for a game that its partner has a record
\* of and it has not: it still has no record of the game and sent nothing
C28_Witness ==
  /\ last.op = "move:made"
  /\ last.gameId \notin DOMAIN games[last.node]
  /\ last.gameId \in DOMAIN games[Partner(last.node)]
  /\ sent = << >>
  /\ published = << >>

\* the connection of the socket on node n closes
Closes(n, socket) ==
  /\ socket \in Open(n)
  /\ clients' = [clients EXCEPT ![n] = Remove(@, socket)]

\* the game of the connection is WAITING and the connection's player is its
\* only player
SoleOccupant(n, socket) ==
  LET connection == clients[n][socket]
      gameId == connection.gameId
  IN  /\ gameId # Nil
      /\ gameId \in DOMAIN games[n]
      /\ games[n][gameId].state = WAITING
      /\ \E s \in Symbols :
           /\ DOMAIN games[n][gameId].players = {s}
           /\ games[n][gameId].players[s].id = connection.playerId

\* C29: when the connection of the only player of a WAITING game closes, the
\* node deletes the record and clears its pending reference if the game is its
\* pending game, and otherwise leaves the games table and the pending reference
\* as they were.
C29_CloseDeletesPendingWaitingGameOnly ==
  [][\A n \in Nodes : \A socket \in SocketIds :
       (Closes(n, socket) /\ SoleOccupant(n, socket))
         => LET gameId == clients[n][socket].gameId
            IN  IF pendingGame[n] = gameId
                THEN /\ games' = [games EXCEPT ![n] = Remove(@, gameId)]
                     /\ pendingGame' = [pendingGame EXCEPT ![n] = Nil]
                ELSE /\ games' = games
                     /\ pendingGame' = pendingGame]_vars

\* a connection has closed whose game is WAITING and is not the pending game of
\* the node: the record is still in the table, with the player of the closed
\* connection as its only player, and the pending game is another game
C29_Witness ==
  /\ last.op = "close"
  /\ last.socket \notin Open(last.node)
  /\ last.gameId # Nil
  /\ last.gameId \in DOMAIN games[last.node]
  /\ LET game == games[last.node][last.gameId]
     IN  /\ game.state = WAITING
         /\ \E s \in Symbols :
              /\ DOMAIN game.players = {s}
              /\ game.players[s].socket = last.socket
              /\ game.players[s].serverId = last.node
  /\ pendingGame[last.node] # Nil
  /\ pendingGame[last.node] # last.gameId

\* the events the federation manager emits to the handlers of the server
HandlerEvents == {"player:waiting", "player:joined", "move:made", "game:ended"}

\* C30: when a node takes an envelope from the topic, one of its handlers runs
\* only if the envelope's recipient is the node; an envelope that the node
\* published itself, addressed to its partner, is dropped: the games table, the
\* pending reference and the clients stay as they were, nothing is sent to a
\* client and nothing is published.
C30_OnlyOwnRecipientHandled ==
  [][\A n \in Nodes :
       (chan[n] # << >> /\ chan'[n] = Tail(chan[n]))
         => LET message == Head(chan[n])
            IN  /\ (last'.node = n /\ last'.op \in HandlerEvents)
                     => message.toServerId = n
                /\ (message.fromServerId = n \/ message.toServerId # n)
                     => /\ last'.op = "dropped"
                        /\ games' = games
                        /\ pendingGame' = pendingGame
                        /\ clients' = clients
                        /\ sent' = << >>
                        /\ published' = << >>]_vars

\* before any move, a node has dropped an envelope for a game it has as PLAYING
\* with a player of its own on an open connection and a player of its partner:
\* the player-joined event it published itself when its client joined
C30_Witness ==
  /\ last.op = "dropped"
  /\ moves = 0
  /\ last.gameId \in DOMAIN games[last.node]
  /\ LET game == games[last.node][last.gameId]
     IN  /\ game.state = PLAYING
         /\ \E s \in Symbols :
              /\ game.players[s].serverId = last.node
              /\ game.players[s].socket \in Open(last.node)
              /\ game.players[Other(s)].serverId = Partner(last.node)
  /\ pendingGame[last.node] = Nil
  /\ chan[last.node] = << >>

\* the game ids the nodes can generate for LossyConns clients
LossyGames == {<< n, k >> : n \in Nodes, k \in 1 .. LossyConns}

\* nothing is in flight and the two records of game g hold different boards
Stale(g) ==
  /\ \A n \in Nodes : chan[n] = << >>
  /\ \A n \in Nodes : g \in DOMAIN games[n]
  /\ games[SERVER_A_ID][g].board # games[SERVER_B_ID][g].board

\* the two records of game g hold the same board and the same turn
Agree(g) ==
  /\ \A n \in Nodes : g \in DOMAIN games[n]
  /\ games[SERVER_A_ID][g].board = games[SERVER_B_ID][g].board
  /\ games[SERVER_A_ID][g].currentTurn = games[SERVER_B_ID][g].currentTurn

\* a step in which node n accepts a move while it cannot publish: nothing is
\* published or queued, the record of n has the mark and either the turn flipped
\* or the game FINISHED, the mover is sent MOVE_ACCEPTED, and the partner's
\* table is as it was
LostMoveStep(n) ==
  (/\ moves' = moves + 1
   /\ last'.node = n
   /\ ~(isConnected[n] /\ publisherUp[n]))
    => LET g == last'.gameId
           before == games[n][g]
           after == games'[n][g]
       IN  /\ published' = << >>
           /\ chan' = chan
           /\ \E row \in Idx : \E col \in Idx :
                /\ before.board[row][col] = EMPTY_CELL
                /\ after.board = [before.board EXCEPT ![row][col] = before.currentTurn]
           /\ \/ after.state = FINISHED
              \/ after.state = PLAYING /\ after.currentTurn = Other(before.currentTurn)
           /\ sent' # << >>
           /\ sent'[1].socket = last'.socket
           /\ sent'[1].msg.type = "MOVE_ACCEPTED"
           /\ games'[Partner(n)] = games[Partner(n)]

\* envelopes enter the topic only in the step that publishes them
NoRetryStep ==
  \A m \in Nodes :
    chan'[m] # chan[m] /\ Len(chan'[m]) >= Len(chan[m])
      => /\ published' # << >>
         /\ chan'[m] = chan[m] \o published'
         /\ isConnected[last'.node] /\ publisherUp[last'.node]

\* C31: a move accepted while the node is not connected or its publish fails is
\* lost without retry: the node's record advances and the mover is sent
\* MOVE_ACCEPTED, the partner's record keeps its board and turn, no envelope
\* enters the topic later than the step that published it, and once the two
\* records of a game differ with nothing in flight they never agree again.
C31_LostMoveNeverRepaired ==
  /\ [][(\A n \in Nodes : LostMoveStep(n)) /\ NoRetryStep]_vars
  /\ \A g \in LossyGames : [](Stale(g) => [](~Agree(g)))


\* the eight lines in the order row 0, row 1, row 2, column 0, column 1,
\* column 2, main diagonal, anti-diagonal; rows from left to right, columns and
\* diagonals from top to bottom
LineOrder ==
  << << <<0, 0>>, <<0, 1>>, <<0, 2>> >>,
     << <<1, 0>>, <<1, 1>>, <<1, 2>> >>,
     << <<2, 0>>, <<2, 1>>, <<2, 2>> >>,
     << <<0, 0>>, <<1, 0>>, <<2, 0>> >>,
     << <<0, 1>>, <<1, 1>>, <<2, 1>> >>,
     << <<0, 2>>, <<1, 2>>, <<2, 2>> >>,
     << <<0, 0>>, <<1, 1>>, <<2, 2>> >>,
     << <<0, 2>>, <<1, 1>>, <<2, 0>> >> >>

UniformAt(board) == {i \in DOMAIN LineOrder : Uniform(board, LineOrder[i])}

TopRowX ==
  [r \in Idx |-> [c \in Idx |-> IF r = 0 THEN PLAYER_X ELSE EMPTY_CELL]]

\* C32: on a board with one or more uniform non-empty lines checkWinner returns
\* the first of them in the order of LineOrder, with its three coordinates in
\* that order, and the mark of that line as the winner; on the board whose top
\* row is X, X, X and whose other cells are empty it returns X with the line
\* (0,0), (0,1), (0,2).
C32_FirstLineInFixedOrder ==
  eCall.op = "checkWinner" =>
    /\ UniformAt(eGame.board) # {}
         => LET first == LineOrder[Min(UniformAt(eGame.board))]
            IN  /\ eRes.winningLine = Line(first)
                /\ eRes.winner = At(eGame.board, first[1])
    /\ eGame.board = TopRowX
         => /\ eRes.winner = PLAYER_X
            /\ eRes.winningLine = Line(<< <<0, 0>>, <<0, 1>>, <<0, 2>> >>)

\* checkWinner has answered for a board on which the bottom row and the left
\* column are both uniform, and no other line is: the line returned is the
\* bottom row
C32_Witness ==
  /\ eCall.op = "checkWinner"
  /\ UniformAt(eGame.board) = {3, 4}
  /\ eRes.winningLine = Line(<< <<2, 0>>, <<2, 1>>, <<2, 2>> >>)


\* C33: whenever the pending reference of a node is set, the node has a record
\* of the referenced game and the record is WAITING.
C33_PendingGameIsKnownAndWaiting ==
  \A n \in Nodes :
    pendingGame[n] # Nil
      => /\ pendingGame[n] \in DOMAIN games[n]
         /\ games[n][pendingGame[n]].state = WAITING


\* C34: handling a player-joined event for a game g with a record changes the
\* pending reference of the node only if the reference is g.
C34_PlayerJoinedClearsOnlyItsOwnPending ==
  [][\A n \in Nodes :
       (Takes(n, "PLAYER_JOINED") /\ pendingGame[n] # Head(chan[n]).gameId)
         => pendingGame'[n] = pendingGame[n]]_vars


\* C35: whenever no federation event is in flight, every game that is PLAYING on
\* a node has a record on the partner node.
C35_PlayingGameKnownToPartner ==
  (\A m \in Nodes : chan[m] = << >>)
    => \A n \in Nodes : \A g \in DOMAIN games[n] :
         games[n][g].state = PLAYING => g \in DOMAIN games[Partner(n)]


\* C36: a record that is FINISHED keeps its winner and its board in every
\* later state.
C36_FinishedRecordIsFrozen ==
  [][\A n \in Nodes : \A g \in DOMAIN games[n] :
       (games[n][g].state = FINISHED /\ g \in DOMAIN games'[n])
         => /\ games'[n][g].winner = games[n][g].winner
            /\ games'[n][g].board = games[n][g].board]_vars


\* the number of marks on a board
Filled(board) == Marks(board, PLAYER_X) + Marks(board, PLAYER_O)

\* node n accepts a move
Accepts(n) ==
  /\ moves' = moves + 1
  /\ last'.node = n

\* C37: on every node the board of every record holds as many X as O, or one X
\* more; and the two nodes never accept a move for the same turn of a game: when
\* a node accepts a move, the partner's record of the game does not already hold
\* more marks than the node's record held before the move.
C37_MarksAlternate ==
  /\ [](\A n \in Nodes : \A g \in DOMAIN games[n] :
          LET d == Marks(games[n][g].board, PLAYER_X) - Marks(games[n][g].board, PLAYER_O)
          IN  0 <= d /\ d <= 1)
  /\ [][\A n \in Nodes :
          (Accepts(n) /\ last'.gameId \in DOMAIN games[Partner(n)])
            => Filled(games[Partner(n)][last'.gameId].board)
                 <= Filled(games[n][last'.gameId].board)]_vars

CrossGames == {<< n, k >> : n \in Nodes, k \in 1 .. CrossConns}

\* the connection that just closed on node n was that of a player of game g,
\* which was PLAYING there: game-ended went out with winner w
Left(n, g, w) ==
  /\ last.op = "close"
  /\ last.node = n
  /\ last.gameId = g
  /\ Len(published) = 1
  /\ published[1].type = "GAME_ENDED"
  /\ published[1].data.winner = w

\* node m has just handled game-ended for g: its record is FINISHED and a client
\* of its own that holds symbol w in the record was sent GAME_OVER with winner w
OpponentToldItWon(m, g, w) ==
  /\ last.op = "game:ended"
  /\ last.node = m
  /\ last.gameId = g
  /\ g \in DOMAIN games[m]
  /\ games[m][g].state = FINISHED
  /\ \E i \in DOMAIN sent :
       /\ sent[i].msg.type = "GAME_OVER"
       /\ sent[i].msg.winner = w
       /\ sent[i].socket \in Open(m)
       /\ w \in DOMAIN games[m][g].players
       /\ games[m][g].players[w].id = clients[m][sent[i].socket].playerId

\* C38: when the local player of a PLAYING game disconnects while the opponent
\* stays connected on the partner node, and the game-ended event is delivered,
\* the opponent's client eventually receives GAME_OVER naming the opponent's own
\* symbol as the winner, the partner's record of the game then being FINISHED.
C38_OpponentEventuallyToldItWon ==
  \A n \in Nodes : \A g \in CrossGames : \A w \in Symbols :
    Left(n, g, w) ~> OpponentToldItWon(Partner(n), g, w)

\* C39: after a client connection closes, the games table of the node holds no
\* WAITING game whose only player is the player that joined through that
\* connection.
C39_ClosedPlayerLeavesNoWaitingGame ==
  [][\A n \in Nodes : \A socket \in SocketIds :
       (Closes(n, socket) /\ clients[n][socket].playerId # Nil)
         => \A g \in DOMAIN games'[n] :
              ~(/\ games'[n][g].state = WAITING
                /\ \E s \in Symbols :
                     /\ DOMAIN games'[n][g].players = {s}
                     /\ games'[n][g].players[s].id = clients[n][socket].playerId)]_vars

====
